---- MODULE Spec2Model ----
(***************************************************************************)
(* Data connectors of the retail-analytics pipeline: the connector         *)
(* contract (connect / extract / metadata), the API connector with its     *)
(* paginated extraction, the file connector and the Kaggle connector.      *)
(*                                                                         *)
(* One connector object is modelled.  Its type and configuration are       *)
(* chosen in Init, together with the outside world it talks to (HTTP       *)
(* server, file system, Kaggle account).  The caller then issues connect() *)
(* and extract() calls.  A paginated API extraction advances one loop      *)
(* iteration of _handle_pagination (request, parse, yield, update) per     *)
(* step.                                                                   *)
(*                                                                         *)
(* FactorySpec is the connector factory (registry, creation from a type    *)
(* tag, from a configuration file and from a directory).  HelperSpec       *)
(* applies the pure helpers _get_url, _flatten_json and save_data and the  *)
(* walk along results_path to bounded inputs.  GeneratorSpec follows       *)
(* _handle_pagination suspension by suspension, with a consumer that may   *)
(* stop after any page.  PairSpec follows two Kaggle connectors of one     *)
(* process and the credentials file they write.                            *)
(***************************************************************************)
EXTENDS Integers, Sequences, FiniteSets, TLC

VARIABLES
    ctype,          \* "api" | "file" | "kaggle": the connector class
    config,         \* self.config
    env,            \* the outside world: server, file system, Kaggle account
    session,        \* APIConnector.session: FALSE is None, TRUE a Session object
    authenticated,  \* KaggleConnector.authenticated
    metadata,       \* self.metadata (status, error, record_count)
    pc,             \* where the connector's caller is: "idle", or inside extract()
    calls,          \* number of extract() calls started so far
    outcome,        \* how the last connect()/extract() call ended
    connectOK,      \* result of the last connect(): "never" | "true" | "false"
    params,         \* merged_params of the running extract(), as sent
    position,       \* current_offset / current_page of _handle_pagination
    next_cursor,    \* next_cursor of _handle_pagination
    total_count,    \* total_count of _handle_pagination
    more_pages,     \* more_pages of _handle_pagination
    all_results,    \* all_results of extract()
    requests,       \* log: the params of every GET of the running extract()
    pages,          \* log: every page yielded to extract() by the generator
    lastResp,       \* log: the response to the last GET
    written,        \* log: the status values written during the last extract()
    sessionState,   \* what APIConnector.session carries: headers and auth
    registry,       \* ConnectorFactory.CONNECTOR_TYPES
    factoryOutcome, \* how the last call of a factory method ended
    callParams,     \* the params argument of the running extract()
    endpoint_name,  \* endpoint_name of the last extract(): "" when it is
                    \* not given or not read
    reconnected,    \* the last call is a connect() made right after a
                    \* connect() that returned True
    helper,         \* the last call of a helper (_get_url, _flatten_json,
                    \* save_data) with its arguments and its result
    pair            \* two KaggleConnector objects of one process and the
                    \* file ~/.kaggle/kaggle.json; <<>> when not followed

connectorVars ==
    <<ctype, config, env, session, authenticated, metadata, pc, calls,
      outcome, connectOK, params, position, next_cursor, total_count,
      more_pages, all_results, requests, pages, lastResp, written,
      sessionState, callParams, endpoint_name, reconnected>>

(* the variables a connector's methods never touch *)
otherVars == <<registry, factoryOutcome, helper, pair>>

vars == <<connectorVars, otherVars>>

pagingVars == <<params, position, next_cursor, total_count, more_pages,
                all_results, requests, pages, lastResp, callParams,
                endpoint_name>>

----------------------------------------------------------------------------
(* Bounds of the model *)

MaxLimit == 2       \* limits supplied by the parameter layers: 1..MaxLimit
MaxRecords == 3     \* records held by the position-serving server: 0..MaxRecords
MaxTotal == 3       \* total counts an arbitrary server may report: 0..MaxTotal
MaxPages == 3       \* requests answered by the arbitrary server per traversal
MaxCalls == 2       \* extract() calls per behaviour
MaxFiles == 2       \* entries of a file list / dataset list
MaxListing == 2     \* entries of a scanned configuration directory
MaxSlashes == 2     \* slashes that end a base URL or begin an endpoint path
MaxKeys == 2        \* top-level keys of a record to flatten
ServerPageSize == 2 \* page size of the server when the request carries no limit

(* More requests than a traversal of MaxRecords records needs. *)
MaxRequests == MaxRecords + 2

(* Program constants *)
DefaultLimit == 100

----------------------------------------------------------------------------
(* Python / JSON values, tagged by type *)

JNull == [t |-> "null"]
JInt(n) == [t |-> "int", n |-> n]
JStr(s) == [t |-> "str", s |-> s]
JList(xs) == [t |-> "list", xs |-> xs]
JDict(f) == [t |-> "dict", f |-> f]
Absent == [t |-> "absent"]          \* a key that is not in a mapping
Raised(e) == [t |-> "raise", exc |-> e]

EmptyDict == [k \in {} |-> JNull]

(* Python truthiness of a value *)
Truthy(j) ==
    CASE j.t = "null" -> FALSE
      [] j.t = "int"  -> j.n # 0
      [] j.t = "str"  -> j.s # ""
      [] j.t = "list" -> j.xs # <<>>
      [] j.t = "dict" -> DOMAIN j.f # {}
      [] OTHER -> TRUE

(* obj.get(key, default): an AttributeError unless obj is a mapping *)
PyGet(obj, key, default) ==
    IF obj.t # "dict" THEN Raised("AttributeError")
    ELSE IF key \in DOMAIN obj.f THEN obj.f[key] ELSE default

(* path.split('.') of a path written as tokens, "meta.total" being
   <<"meta", ".", "total">> and "" being <<>> *)
RECURSIVE SplitPath(_)
SplitPath(s) ==
    IF s = <<>> THEN <<"">>
    ELSE IF Head(s) = "." THEN <<"">> \o SplitPath(Tail(s))
    ELSE IF Len(s) = 1 THEN <<Head(s)>>
    ELSE <<Head(s)>> \o SplitPath(Tail(Tail(s)))

(* for key in keys: obj = obj.get(key, default) *)
RECURSIVE WalkKeys(_, _, _)
WalkKeys(obj, keys, default) ==
    IF keys = <<>> THEN obj
    ELSE LET r == PyGet(obj, Head(keys), default)
         IN  IF r.t = "raise" THEN r ELSE WalkKeys(r, Tail(keys), default)

(* int(obj): a number, a decimal string, or a TypeError / ValueError *)
Numerals == [s \in {"0", "1", "2", "3"} |->
                CASE s = "0" -> 0 [] s = "1" -> 1 [] s = "2" -> 2 [] OTHER -> 3]

PyInt(obj) ==
    CASE obj.t = "int" -> obj
      [] obj.t = "str" -> IF obj.s \in DOMAIN Numerals
                          THEN JInt(Numerals[obj.s])
                          ELSE Raised("ValueError")
      [] OTHER -> Raised("TypeError")

(* len(obj) of a list or a mapping *)
PyLen(obj) ==
    CASE obj.t = "list" -> Len(obj.xs)
      [] obj.t = "dict" -> Cardinality(DOMAIN obj.f)
      [] OTHER -> 0

(* metadata.update(upd): new values overlay prior ones, no key is removed *)
MetaUpdate(md, upd) ==
    [k \in DOMAIN md |-> IF k \in DOMAIN upd THEN upd[k] ELSE md[k]]

(* metadata["error"]: <<>> is None, otherwise the parts of the f-string *)
NoError == <<>>

----------------------------------------------------------------------------
(* Configurations *)

Path0 == <<>>                           \* ""
PathData == <<"data">>                  \* "data"
PathTotal == <<"total">>                \* "total"
PathMetaTotal == <<"meta", ".", "total">>   \* "meta.total"
PathNext == <<"next">>                  \* "next"
PathMetaNext == <<"meta", ".", "next">>     \* "meta.next"

(* A layer of request parameters: the position parameter (offset_param)
   and an ordinary parameter, Absent when the layer does not hold the key.
   The limit parameter is kept apart. *)
Layer(pos, category) == [pos |-> pos, category |-> category]
NoLayer == Layer(Absent, Absent)

(* limit: 0 when no parameter layer supplies the limit parameter; the
   layers params.default and params.<endpoint> are empty *)
ApiConfig(pg, pt, rp, tp, np, lim, au) ==
    [pagination |-> pg, ptype |-> pt, results_path |-> rp,
     total_count_path |-> tp, next_cursor_path |-> np, limit |-> lim,
     auth_type |-> au, params_default |-> NoLayer, params_endpoint |-> NoLayer]

(* the configurations that fill the parameter layers: with each pagination
   type and without pagination *)
LayerConfigs ==
    { [ApiConfig(pp[1], pp[2], PathData, Path0, PathNext, 1, "none")
         EXCEPT !.params_default = Layer(Absent, de[1]),
                !.params_endpoint = Layer(Absent, de[2])] :
        pp \in {<<TRUE, "offset">>, <<TRUE, "page">>, <<TRUE, "cursor">>,
                <<FALSE, "offset">>},
        de \in {<<Absent, Absent>>, <<JStr("d"), Absent>>,
                <<JStr("d"), JStr("e")>>} }

(* the endpoint argument of the extract() calls: none, a key of the
   endpoints map, and, on the configurations that fill the parameter
   layers, a name that is no key of the map *)
EndpointNames(cfg, call) ==
    {"", "products"}
    \cup (IF cfg \in LayerConfigs /\ call = NoLayer THEN {"orders"} ELSE {})

(* the params argument of the extract() calls on a configuration *)
CallParams(cfg) ==
    IF cfg \in LayerConfigs
    THEN {NoLayer, Layer(JInt(2), JStr("c"))}
    ELSE {NoLayer}

ApiConfigs ==
    \* offset and page pagination, with and without a total count
    { ApiConfig(TRUE, pt, rp, tp, Path0, lim, "none") :
        pt \in {"offset", "page"}, rp \in {Path0, PathData},
        tp \in {Path0, PathTotal, PathMetaTotal}, lim \in 0..MaxLimit }
    \cup
    \* cursor pagination
    { ApiConfig(TRUE, "cursor", rp, Path0, np, lim, "none") :
        rp \in {Path0, PathData}, np \in {Path0, PathNext, PathMetaNext},
        lim \in {0, 1} }
    \cup
    \* the authentication modes, with offset pagination, with an
    \* unsupported pagination type and without pagination
    { ApiConfig(pg, pt, PathData, Path0, Path0, 1, au) :
        pg \in BOOLEAN, pt \in {"offset", "graphql"},
        au \in {"none", "api_key", "basic", "bearer", "oauth"} }
    \cup LayerConfigs

(* sequences over S of length at most n *)
SeqsUpTo(S, n) == UNION {[1..k -> S] : k \in 0..n}

(* A file named by a configuration, with what the file system holds for its
   path: a readable file of some rows, nothing, or a file that cannot be
   parsed. *)
FileSpec(kind, rows) == [kind |-> kind, rows |-> rows]

(* A directory named by a configuration: whether it exists, and the files
   its pattern matches. *)
DirSpec(kind, found) == [kind |-> kind, found |-> found]

FileConfigs ==
    LET files == {FileSpec("ok", 1), FileSpec("ok", 2), FileSpec("missing", 0),
                  FileSpec("corrupt", 0)}
        dirs == {DirSpec("missing", <<>>), DirSpec("present", <<>>),
                 DirSpec("present", <<FileSpec("ok", 1)>>)}
    IN  { [files |-> fs, directories |-> ds] :
            fs \in SeqsUpTo(files, MaxFiles), ds \in SeqsUpTo(dirs, 1) }

(* A dataset named by a configuration: whether owner and dataset are given,
   and what its download produces: a csv file of some rows, a zip archive
   of some files, or a failure. *)
DatasetSpec(named, download, n) == [named |-> named, download |-> download, n |-> n]

KaggleConfigs ==
    LET datasets == {DatasetSpec(FALSE, "csv", 1), DatasetSpec(TRUE, "csv", 2),
                     DatasetSpec(TRUE, "zip", 2), DatasetSpec(TRUE, "fail", 0)}
    IN  { [credentials |-> c, datasets |-> ds] :
            c \in BOOLEAN, ds \in SeqsUpTo(datasets, MaxFiles) }

(* The Kaggle account: whether authenticate() succeeds. *)
OtherEnvs == {[server |-> "none", nrec |-> 0, auth_ok |-> b] : b \in BOOLEAN}

(* The server: "any" answers whatever it likes, "byposition" holds nrec
   records and serves the page addressed by the position parameter. *)
ApiEnvs ==
    {[server |-> "any", nrec |-> 0, auth_ok |-> TRUE]}
    \cup {[server |-> "byposition", nrec |-> n, auth_ok |-> TRUE] :
             n \in 0..MaxRecords}

----------------------------------------------------------------------------
(* The HTTP server *)

(* A response: the HTTP outcome and, for a 2xx answer with a JSON body, the
   records of the page, the reported total and next cursor (Absent when the
   body does not have the key) and whether the body has a "meta" object. *)
Response(h, items, meta, tot, cur) ==
    [http |-> h, items |-> items, hasMeta |-> meta, tot |-> tot, cur |-> cur]

NoResponse == Response("none", <<>>, FALSE, Absent, Absent)

(* The parsed body of a response.  A server whose results are the whole
   body answers a bare array; otherwise the body is an object holding the
   records under "data", the total under "total" and "meta.total" and the
   cursor under "next" and "meta.next". *)
BodyOf(r, bare) ==
    IF bare THEN JList(r.items)
    ELSE LET inner == (IF r.tot # Absent THEN {"total"} ELSE {})
                      \cup (IF r.cur # Absent THEN {"next"} ELSE {})
             metaObj == JDict([k \in inner |->
                                 IF k = "total" THEN r.tot ELSE r.cur])
             keys == {"data"} \cup inner
                     \cup (IF r.hasMeta THEN {"meta"} ELSE {})
         IN  JDict([k \in keys |->
                      CASE k = "data" -> JList(r.items)
                        [] k = "total" -> r.tot
                        [] k = "next" -> r.cur
                        [] OTHER -> metaObj])

IsDeep(path) == Len(path) > 1

(* Responses of a server that answers whatever it likes.  k is the number
   of the request; the records of page k are 10*k+1, 10*k+2, ...  Fields
   the connector does not read under cfg are left out. *)
AnyResponses(cfg, k, total) ==
    LET paged == cfg.pagination
        lens == IF cfg.limit = 0 \/ (paged /\ cfg.ptype = "cursor")
                THEN {0, 1} ELSE 0..MaxLimit
        metas == IF paged /\ (IsDeep(cfg.total_count_path)
                              \/ IsDeep(cfg.next_cursor_path))
                 THEN BOOLEAN ELSE {TRUE}
        tots == IF paged /\ cfg.total_count_path # Path0 /\ total = JNull
                THEN {Absent, JNull, JStr("n/a")}
                     \cup {JInt(n) : n \in 0..MaxTotal}
                ELSE {Absent}
        curs == IF paged /\ cfg.ptype = "cursor" /\ cfg.next_cursor_path # Path0
                THEN {Absent, JNull, JStr(""), JStr("tok")}
                ELSE {Absent}
    IN  { Response("ok", [i \in 1..n |-> 10 * k + i], m, t, c) :
            n \in lens, m \in metas, t \in tots, c \in curs }
        \cup { Response(h, <<>>, FALSE, Absent, Absent) :
                 h \in {"error", "badjson"} }

(* records a+1 .. b of the server's records 1 .. n *)
Slice(n, a, b) ==
    LET lo == IF a < 0 THEN 0 ELSE a
        hi == IF b > n THEN n ELSE b
    IN  IF hi <= lo THEN <<>> ELSE [i \in 1..(hi - lo) |-> lo + i]

(* The response of a server that holds the records 1 .. nrec and serves the
   page the request addresses: by offset, by page number, or by the cursor
   it handed out (the start of the next page). *)
ByPositionResponse(cfg, nrec, req) ==
    LET size == IF req.limit # Absent THEN req.limit.n ELSE ServerPageSize
        start == IF req.pos = Absent \/ ~cfg.pagination THEN 0
                 ELSE IF cfg.ptype = "page" THEN (req.pos.n - 1) * size
                 ELSE req.pos.n
        cur == IF start + size < nrec THEN JInt(start + size) ELSE Absent
    IN  Response("ok", Slice(nrec, start, start + size), TRUE, JInt(nrec), cur)

(* the requests the model lets one traversal issue *)
RequestCap(e) == IF e.server = "any" THEN MaxPages ELSE MaxRequests

Responses(cfg, e, req, k, total) ==
    IF e.server = "any" THEN AnyResponses(cfg, k, total)
    ELSE {ByPositionResponse(cfg, e.nrec, req)}

----------------------------------------------------------------------------
(* APIConnector: the pagination engine *)

(* limit = params.get(limit_param, 100) *)
EngineLimit(prm) == IF prm.limit # Absent THEN prm.limit.n ELSE DefaultLimit

(* "update pagination parameter" at the head of the loop.  The page-mode
   statement compares and does not assign, so it leaves params alone. *)
RequestParams(cfg, prm, pos, cursor) ==
    CASE cfg.ptype = "offset" -> [prm EXCEPT !.pos = JInt(pos)]
      [] cfg.ptype = "page" -> prm
      [] cfg.ptype = "cursor" /\ Truthy(cursor) -> [prm EXCEPT !.pos = cursor]
      [] OTHER -> prm

(* "extract results based on results_path" *)
ExtractResults(data, rpath) ==
    IF rpath # Path0 THEN WalkKeys(data, SplitPath(rpath), JList(<<>>)) ELSE data

(* a variant of ExtractTotal whose condition never lets the extraction run *)
ExtractTotalSkipped(data, tpath, total) == total

(* "get total count if available": TypeError and ValueError are caught and
   leave total_count as it was; anything else propagates. *)
ExtractTotal(data, tpath, total) ==
    IF total = JNull /\ tpath # Path0
    THEN LET obj == WalkKeys(data, SplitPath(tpath), JNull)
         IN  IF obj.t = "raise" THEN obj
             ELSE IF PyInt(obj).t = "raise" THEN total ELSE PyInt(obj)
    ELSE total

(* a variant of ExtendResults that keeps only the last page *)
ExtendResultsOverwrite(all, page) ==
    IF page.t = "list" THEN JList(page.xs) ELSE Raised("TypeError")

(* all_results.extend(page_results) *)
ExtendResults(all, page) ==
    IF page.t = "list" THEN JList(all \o page.xs) ELSE Raised("TypeError")

(* a variant of MorePagesOffset that goes on after every non-empty page *)
MorePagesOffsetNonEmpty(n, limit, pos, total) ==
    IF total # JNull THEN pos < total.n ELSE n > 0

(* more_pages after a page of n records, offset mode; pos is the advanced
   current_offset *)
MorePagesOffset(n, limit, pos, total) ==
    IF total # JNull THEN pos < total.n ELSE n = limit

(* a variant of MorePagesPage that compares the advanced page number
   itself, not the pages already fetched *)
MorePagesPageOffByOne(n, limit, page, total) ==
    IF total # JNull THEN page * limit < total.n ELSE n = limit

(* more_pages after a page of n records, page mode; page is the advanced
   current_page *)
MorePagesPage(n, limit, page, total) ==
    IF total # JNull THEN (page - 1) * limit < total.n ELSE n = limit

(* "look for next cursor in response": [cursor, more] or a raise *)
NextCursor(data, npath, cursor) ==
    IF npath # Path0
    THEN LET obj == WalkKeys(data, SplitPath(npath), JNull)
         IN  IF obj.t = "raise" THEN obj
             ELSE [t |-> "ok", cursor |-> obj,
                   more |-> (obj # JNull /\ obj # JStr(""))]
    ELSE [t |-> "ok", cursor |-> cursor, more |-> FALSE]

(* The locals of _handle_pagination and extract() that one loop iteration
   reads and writes. *)
Locals(pos, cursor, total, more, all, pgs) ==
    [position |-> pos, next_cursor |-> cursor, total_count |-> total,
     more_pages |-> more, all_results |-> all, pages |-> pgs, exc |-> ""]

(* One iteration of the while loop on response r: raise_for_status, json,
   results, total count, yield (extract() extends all_results), update of
   position and more_pages.  exc names the exception that left the
   generator or the consumer, "" if none. *)
PageStep(cfg, loc, prm, r) ==
    LET limit == EngineLimit(prm)
        data == BodyOf(r, cfg.results_path = Path0)
        results == ExtractResults(data, cfg.results_path)
        total == ExtractTotal(data, cfg.total_count_path, loc.total_count)
        all == ExtendResults(loc.all_results, results)
        yielded == [loc EXCEPT !.total_count = total,
                               !.pages = Append(@, results.xs),
                               !.all_results = all.xs]
        cur == NextCursor(data, cfg.next_cursor_path, loc.next_cursor)
    IN  IF r.http = "error" THEN [loc EXCEPT !.exc = "HTTPError"]
        ELSE IF r.http = "badjson" THEN [loc EXCEPT !.exc = "JSONDecodeError"]
        ELSE IF results.t = "raise" THEN [loc EXCEPT !.exc = results.exc]
        ELSE IF total.t = "raise" THEN [loc EXCEPT !.exc = total.exc]
        ELSE IF all.t = "raise"
             THEN [loc EXCEPT !.total_count = total, !.exc = all.exc]
        ELSE IF cfg.ptype = "offset"
             THEN [yielded EXCEPT
                     !.position = @ + limit,
                     !.more_pages = MorePagesOffset(PyLen(results), limit,
                                        loc.position + limit, total)]
        ELSE IF cfg.ptype = "page"
             THEN [yielded EXCEPT
                     !.position = @ + 1,
                     !.more_pages = MorePagesPage(PyLen(results), limit,
                                        loc.position + 1, total)]
        ELSE IF cur.t = "raise" THEN [yielded EXCEPT !.exc = cur.exc]
        ELSE [yielded EXCEPT !.next_cursor = cur.cursor,
                             !.more_pages = cur.more]

----------------------------------------------------------------------------
(* Calls and their outcomes *)

(* How a call ended: kind is "returned" or "raised"; exc is the message of
   the exception raised; ok is the value connect() returned; result is the
   value extract() returned. *)
Outcome(op, kind, exc, ok, result) ==
    [op |-> op, kind |-> kind, exc |-> exc, ok |-> ok, result |-> result]

NoOutcome == Outcome("none", "none", "", FALSE, <<>>)
ConnectReturned(ok) == Outcome("connect", "returned", "", ok, <<>>)
ExtractReturned(result) == Outcome("extract", "returned", "", FALSE, result)
ExtractRaised(exc) == Outcome("extract", "raised", exc, FALSE, <<>>)

InitialMetadata ==
    [status |-> "initialized", error |-> NoError, record_count |-> 0]

(* the except branch of connect() *)
ConnectFailed(md, prefix, exc) ==
    MetaUpdate(md, [status |-> "error", error |-> <<prefix, exc>>])

(* "start extraction" *)
ExtractionStarted(md) == MetaUpdate(md, [status |-> "in_progress"])

(* the except branch of APIConnector.extract() *)
ExtractionFailed(md, exc) ==
    MetaUpdate(md, [status |-> "error", error |-> <<"Extraction failed: ", exc>>])

(* the metadata update of a completed API extraction *)
ExtractionCompleted(md, n) ==
    MetaUpdate(md, [status |-> "completed", record_count |-> n])

----------------------------------------------------------------------------
(* APIConnector *)

(* self.name, and the values of the "auth" mapping of the configuration *)
ConnectorName == "products_api"
Credentials ==
    [api_key |-> "key-1", username |-> "user", password |-> "secret",
     token |-> "tok-1"]

(* A header mapping; a value is the sequence of the parts of its string. *)
NoHeaders == [h \in {} |-> <<>>]

(* headers.update(upd) *)
HeadersUpdate(hs, upd) ==
    [h \in DOMAIN hs \cup DOMAIN upd |->
        IF h \in DOMAIN upd THEN upd[h] ELSE hs[h]]

(* default_headers *)
DefaultHeaders ==
    [h \in {"User-Agent", "Content-Type", "Accept"} |->
        IF h = "User-Agent" THEN <<"RetailAnalytics/", ConnectorName>>
        ELSE <<"application/json">>]

(* the headers the authentication set-up adds to the session *)
AuthHeaders(cfg) ==
    CASE cfg.auth_type = "api_key" -> ("X-API-Key" :> <<Credentials.api_key>>)
      [] cfg.auth_type \in {"bearer", "oauth"} ->
            ("Authorization" :> <<"Bearer ", Credentials.token>>)
      [] OTHER -> NoHeaders

(* self.session: None, or a Session with its headers and its auth
   attribute, <<>> being None.  No branch of connect() assigns auth. *)
NoSession == [open |-> FALSE, headers |-> NoHeaders, auth |-> <<>>]

ApiSession(cfg) ==
    [open |-> TRUE,
     headers |-> HeadersUpdate(HeadersUpdate(NoHeaders, DefaultHeaders),
                               AuthHeaders(cfg)),
     auth |-> <<>>]

(* a variant of ApiSetupError in which connect() refuses to set a second
   session up *)
ApiSetupErrorWhenOpen(cfg, old) ==
    IF old.open THEN "RuntimeError"
    ELSE IF cfg.auth_type = "basic" THEN "TypeError" ELSE ""

(* What connect() raises while it sets the session up, "" if nothing,
   whatever session the connector held before: session.auth is None on a
   new Session, so calling it for basic authentication is a TypeError. *)
ApiSetupError(cfg, old) == IF cfg.auth_type = "basic" THEN "TypeError" ELSE ""

(* a variant of ApiConnectedMetadata in which a successful connect() marks
   the connector as busy again *)
ApiConnectedMetadataResets(md) == MetaUpdate(md, [status |-> "in_progress"])

(* metadata after a connect() that raised nothing *)
ApiConnectedMetadata(md) == md

(* APIConnector.connect(): the session object is created first, so it is
   set on every path. *)
ApiConnect(cfg, md, old) ==
    IF ApiSetupError(cfg, old) = ""
    THEN [ok |-> TRUE, metadata |-> ApiConnectedMetadata(md),
          session |-> ApiSession(cfg)]
    ELSE [ok |-> FALSE,
          metadata |-> ConnectFailed(md, "Connection failed: ",
                                     ApiSetupError(cfg, old)),
          session |-> ApiSession(cfg)]

(* a variant of Merged in which the global default wins *)
MergedDefaultFirst(default, endpoint, call) ==
    IF default # Absent THEN default
    ELSE IF endpoint # Absent THEN endpoint ELSE call

(* {**default_params, **endpoint_params, **params} at one key *)
Merged(default, endpoint, call) ==
    IF call # Absent THEN call
    ELSE IF endpoint # Absent THEN endpoint ELSE default

(* merged_params: the limit parameter, if a layer supplies it, and the
   other keys of the three layers *)
MergedParams(cfg, call) ==
    [limit |-> IF cfg.limit = 0 THEN Absent ELSE JInt(cfg.limit),
     pos |-> Merged(cfg.params_default.pos, cfg.params_endpoint.pos, call.pos),
     category |-> Merged(cfg.params_default.category,
                         cfg.params_endpoint.category, call.category)]

(* a variant of InitialPosition in which page mode starts like offset mode *)
InitialPositionZero(cfg) == 0

(* "initialize pagination variables" *)
InitialPosition(cfg) == IF cfg.ptype = "page" THEN 1 ELSE 0

InitialParams(cfg, call) ==
    IF cfg.ptype \in {"offset", "page"}
    THEN [MergedParams(cfg, call) EXCEPT !.pos = JInt(InitialPosition(cfg))]
    ELSE MergedParams(cfg, call)

ApiConnectCall ==
    /\ ctype = "api" /\ pc = "idle"
    /\ LET c == ApiConnect(config, metadata, sessionState)
       IN  /\ session' = TRUE
           /\ sessionState' = c.session
           /\ metadata' = c.metadata
           /\ connectOK' = IF c.ok THEN "true" ELSE "false"
           /\ outcome' = ConnectReturned(c.ok)
    /\ reconnected' = (outcome = ConnectReturned(TRUE))
    /\ UNCHANGED <<otherVars, ctype, config, env, authenticated, pc, calls,
                   pagingVars, written>>

(* extract() up to the first request: the connection check, the arguments,
   "start extraction", the merge of the parameters and, with pagination,
   the start of the generator. *)
ApiExtractStart ==
    /\ ctype = "api" /\ pc = "idle" /\ calls < MaxCalls
    /\ calls' = calls + 1
    /\ session' = TRUE
    /\ requests' = <<>> /\ pages' = <<>> /\ all_results' = <<>>
    /\ lastResp' = NoResponse
    /\ total_count' = JNull /\ next_cursor' = JNull /\ more_pages' = TRUE
    /\ position' = InitialPosition(config)
    /\ \E call \in CallParams(config) :
       LET c == ApiConnect(config, metadata, sessionState)
           md == IF session THEN metadata ELSE c.metadata
       IN  /\ callParams' = call
           /\ connectOK' = IF session THEN connectOK
                           ELSE IF c.ok THEN "true" ELSE "false"
           /\ sessionState' = IF session THEN sessionState ELSE c.session
           /\ IF ~session /\ ~c.ok
              THEN /\ metadata' = md
                   /\ written' = <<md.status>>
                   /\ outcome' = ExtractRaised("Not connected to API")
                   /\ pc' = "idle" /\ params' = MergedParams(config, call)
                   /\ endpoint_name' = ""
              ELSE \E endpoint \in EndpointNames(config, call) :
                   /\ endpoint_name' = endpoint
                   /\
                     IF endpoint = ""
                     THEN /\ metadata' = md
                          /\ written' = <<>>
                          /\ outcome' = ExtractRaised("Endpoint name must be specified")
                          /\ pc' = "idle" /\ params' = MergedParams(config, call)
                     ELSE IF ~config.pagination
                     THEN /\ metadata' = ExtractionStarted(md)
                          /\ written' = <<metadata'.status>>
                          /\ outcome' = NoOutcome
                          /\ pc' = "single" /\ params' = MergedParams(config, call)
                     ELSE IF config.ptype \notin {"offset", "cursor", "page"}
                     THEN /\ metadata' = ExtractionFailed(ExtractionStarted(md),
                                             "Unsupported pagination type")
                          /\ written' = <<ExtractionStarted(md).status,
                                          metadata'.status>>
                          /\ outcome' = ExtractRaised("Unsupported pagination type")
                          /\ pc' = "idle" /\ params' = MergedParams(config, call)
                     ELSE /\ metadata' = ExtractionStarted(md)
                          /\ written' = <<metadata'.status>>
                          /\ outcome' = NoOutcome
                          /\ pc' = "paging" /\ params' = InitialParams(config, call)
    /\ reconnected' = FALSE
    /\ UNCHANGED <<otherVars, ctype, config, env, authenticated>>

(* One iteration of the loop of _handle_pagination, consumed by extract(). *)
ApiPageRequest ==
    /\ ctype = "api" /\ pc = "paging" /\ more_pages
    /\ Len(requests) < RequestCap(env)
    /\ LET req == RequestParams(config, params, position, next_cursor)
           loc == Locals(position, next_cursor, total_count, more_pages,
                         all_results, pages)
       IN  \E r \in Responses(config, env, req, Len(requests) + 1, total_count) :
             LET new == PageStep(config, loc, req, r)
             IN  /\ params' = req
                 /\ requests' = Append(requests, req)
                 /\ lastResp' = r
                 /\ position' = new.position
                 /\ next_cursor' = new.next_cursor
                 /\ total_count' = new.total_count
                 /\ more_pages' = new.more_pages
                 /\ all_results' = new.all_results
                 /\ pages' = new.pages
                 /\ IF new.exc = ""
                    THEN UNCHANGED <<metadata, outcome, pc, written>>
                    ELSE /\ metadata' = ExtractionFailed(metadata, new.exc)
                         /\ written' = Append(written, metadata'.status)
                         /\ outcome' = ExtractRaised(new.exc)
                         /\ pc' = "idle"
    /\ UNCHANGED <<reconnected, otherVars, ctype, config, env, session, authenticated, calls,
                   connectOK, sessionState, callParams, endpoint_name>>

(* The single request of an extraction without pagination, the conversion
   of its results and the metadata update. *)
ApiSingleRequest ==
    /\ ctype = "api" /\ pc = "single"
    /\ \E r \in Responses(config, env, params, 1, JNull) :
         LET data == BodyOf(r, TRUE)
             results == ExtractResults(data, Path0)
             exc == CASE r.http = "error" -> "HTTPError"
                      [] r.http = "badjson" -> "JSONDecodeError"
                      [] results.t = "raise" -> results.exc
                      [] OTHER -> ""
         IN  /\ requests' = Append(requests, params)
             /\ lastResp' = r
             /\ IF exc = ""
                THEN /\ all_results' = results.xs
                     /\ metadata' = ExtractionCompleted(metadata, PyLen(results))
                     /\ outcome' = ExtractReturned(results.xs)
                ELSE /\ all_results' = all_results
                     /\ metadata' = ExtractionFailed(metadata, exc)
                     /\ outcome' = ExtractRaised(exc)
    /\ written' = Append(written, metadata'.status)
    /\ pc' = "idle"
    /\ UNCHANGED <<reconnected, otherVars, ctype, config, env, session, authenticated, calls,
                   connectOK, params, position, next_cursor, total_count,
                   more_pages, pages, sessionState, callParams, endpoint_name>>

(* The end of a paginated extraction: the generator is exhausted, the
   combined results are converted and the metadata completed. *)
ApiExtractFinish ==
    /\ ctype = "api" /\ pc = "paging" /\ ~more_pages
    /\ metadata' = ExtractionCompleted(metadata, Len(all_results))
    /\ written' = Append(written, metadata'.status)
    /\ outcome' = ExtractReturned(all_results)
    /\ pc' = "idle"
    /\ UNCHANGED <<reconnected, otherVars, ctype, config, env, session, authenticated, calls,
                   connectOK, pagingVars, sessionState>>

----------------------------------------------------------------------------
(* _handle_pagination as a generator, step by step *)

(* what neither the generator nor its consumer touches *)
generatorFrame ==
    <<otherVars, ctype, config, env, session, authenticated, metadata, calls,
      connectOK, written, sessionState, callParams, endpoint_name, reconnected>>

(* a variant of Suspends in which the generator goes on to the next
   iteration without handing the page over *)
SuspendsNever(exc) == IF exc = "" THEN "running" ELSE "idle"

(* Where the generator stands after the first half of an iteration: at
   the yield, suspended until the consumer asks for the next page, or
   gone when the iteration raised exc. *)
Suspends(exc) == IF exc = "" THEN "yielded" ELSE "idle"

(* The first half of an iteration of the loop: the position parameter, the
   request, the parsing, the results, the total count, and the yield.
   The position, the cursor and more_pages are left as they are. *)
GeneratorRequest ==
    /\ ctype = "api" /\ pc = "running" /\ more_pages
    /\ Len(requests) < RequestCap(env)
    /\ LET req == RequestParams(config, params, position, next_cursor)
           loc == Locals(position, next_cursor, total_count, more_pages,
                         all_results, pages)
       IN  \E r \in Responses(config, env, req, Len(requests) + 1, total_count) :
             LET new == PageStep(config, loc, req, r)
                 exc == IF new.pages = pages THEN new.exc ELSE ""
             IN  /\ params' = req
                 /\ requests' = Append(requests, req)
                 /\ lastResp' = r
                 /\ total_count' = new.total_count
                 /\ pages' = new.pages
                 /\ pc' = Suspends(exc)
                 /\ outcome' = IF exc = "" THEN outcome ELSE ExtractRaised(exc)
    /\ UNCHANGED <<generatorFrame, position, next_cursor, more_pages,
                   all_results>>

(* The consumer takes the page it was handed (all_results.extend) and asks
   for the next one: the generator resumes after the yield, advances its
   position and decides more_pages, which ends the loop when it is
   False. *)
ConsumerNext ==
    /\ ctype = "api" /\ pc = "yielded"
    /\ LET loc == Locals(position, next_cursor, total_count, more_pages,
                         all_results, SubSeq(pages, 1, Len(pages) - 1))
           new == PageStep(config, loc, params, lastResp)
       IN  /\ all_results' = new.all_results
           /\ position' = new.position
           /\ next_cursor' = new.next_cursor
           /\ more_pages' = new.more_pages
           /\ pc' = IF new.exc # "" THEN "idle"
                    ELSE IF new.more_pages THEN "running" ELSE "exhausted"
           /\ outcome' = IF new.exc = "" THEN outcome ELSE ExtractRaised(new.exc)
    /\ UNCHANGED <<generatorFrame, params, total_count, requests, pages,
                   lastResp>>

(* The consumer takes the page it was handed and stops: the suspended
   generator is closed and never resumed. *)
ConsumerStop ==
    /\ ctype = "api" /\ pc = "yielded"
    /\ all_results' = all_results \o pages[Len(pages)]
    /\ pc' = "closed"
    /\ UNCHANGED <<generatorFrame, params, position, next_cursor, total_count,
                   more_pages, requests, pages, lastResp, outcome>>

----------------------------------------------------------------------------
(* FileConnector *)

(* the paths of the configuration that do not exist *)
MissingFiles(cfg) == {i \in DOMAIN cfg.files : cfg.files[i].kind = "missing"}
MissingDirs(cfg) ==
    {i \in DOMAIN cfg.directories : cfg.directories[i].kind = "missing"}

(* metadata after a connect() that found a path missing *)
FileConnectFailed(md) == MetaUpdate(md, [status |-> "warning"])

(* FileConnector.connect() *)
FileConnect(cfg, md) ==
    IF MissingFiles(cfg) # {} \/ MissingDirs(cfg) # {}
    THEN [ok |-> FALSE, metadata |-> FileConnectFailed(md)]
    ELSE [ok |-> TRUE, metadata |-> md]

RECURSIVE ExistingOf(_)
ExistingOf(fs) ==
    IF fs = <<>> THEN <<>>
    ELSE (IF Head(fs).kind # "missing" THEN <<Head(fs)>> ELSE <<>>)
         \o ExistingOf(Tail(fs))

RECURSIVE FoundIn(_)
FoundIn(ds) ==
    IF ds = <<>> THEN <<>>
    ELSE (IF Head(ds).kind = "present" THEN Head(ds).found ELSE <<>>)
         \o FoundIn(Tail(ds))

(* _get_matching_files(): the files that exist, then the files found in
   the directories that exist *)
MatchingFiles(cfg) == ExistingOf(cfg.files) \o FoundIn(cfg.directories)

(* the loop over the matching files: the row counts of the files read,
   their sum, and the number of files that failed *)
RECURSIVE ReadFiles(_)
ReadFiles(fs) ==
    IF fs = <<>> THEN [read |-> <<>>, total |-> 0, failed |-> 0]
    ELSE LET rest == ReadFiles(Tail(fs))
         IN  IF Head(fs).kind = "ok"
             THEN [read |-> <<Head(fs).rows>> \o rest.read,
                   total |-> Head(fs).rows + rest.total,
                   failed |-> rest.failed]
             ELSE [rest EXCEPT !.failed = @ + 1]

(* the metadata update that ends FileConnector.extract() *)
FileExtractMetadata(md, fs) ==
    IF fs = <<>> THEN MetaUpdate(md, [status |-> "warning"])
    ELSE MetaUpdate(md,
           [status |-> IF ReadFiles(fs).failed = 0 THEN "completed"
                       ELSE "completed_with_errors",
            record_count |-> ReadFiles(fs).total])

(* a keyword argument of extract(): whether it is given, and its value *)
Kwarg(given, value) == [given |-> given, value |-> value]
NotGiven == Kwarg(FALSE, <<>>)

FileConnectCall ==
    /\ ctype = "file" /\ pc = "idle"
    /\ LET c == FileConnect(config, metadata)
       IN  /\ metadata' = c.metadata
           /\ connectOK' = IF c.ok THEN "true" ELSE "false"
           /\ outcome' = ConnectReturned(c.ok)
    /\ reconnected' = (outcome = ConnectReturned(TRUE))
    /\ UNCHANGED <<otherVars, ctype, config, env, session, authenticated, pc,
                   calls, pagingVars, written, sessionState>>

(* extract() up to "start extraction": the files and directories arguments
   replace those of the configuration. *)
FileExtractStart ==
    /\ ctype = "file" /\ pc = "idle" /\ calls < MaxCalls
    /\ calls' = calls + 1
    /\ \E fs \in {NotGiven, Kwarg(TRUE, <<>>), Kwarg(TRUE, <<FileSpec("ok", 1)>>),
                   Kwarg(TRUE, <<FileSpec("missing", 0)>>)},
          ds \in {NotGiven, Kwarg(TRUE, <<>>)} :
         config' = [files |-> IF fs.given THEN fs.value ELSE config.files,
                    directories |-> IF ds.given THEN ds.value
                                    ELSE config.directories]
    /\ metadata' = ExtractionStarted(metadata)
    /\ written' = <<metadata'.status>>
    /\ outcome' = NoOutcome
    /\ pc' = "reading"
    /\ reconnected' = FALSE
    /\ UNCHANGED <<otherVars, ctype, env, session, authenticated, connectOK,
                   pagingVars, sessionState>>

(* the rest of extract(): the matching files are read and the metadata
   updated *)
FileExtractFinish ==
    /\ ctype = "file" /\ pc = "reading"
    /\ metadata' = FileExtractMetadata(metadata, MatchingFiles(config))
    /\ written' = Append(written, metadata'.status)
    /\ outcome' = ExtractReturned(ReadFiles(MatchingFiles(config)).read)
    /\ pc' = "idle"
    /\ UNCHANGED <<reconnected, otherVars, ctype, config, env, session, authenticated, calls,
                   connectOK, pagingVars, sessionState>>

----------------------------------------------------------------------------
(* KaggleConnector *)

(* KaggleConnector.connect(): authenticated is set only when authenticate()
   raised nothing *)
KaggleConnect(e, md) ==
    IF e.auth_ok
    THEN [ok |-> TRUE, metadata |-> md]
    ELSE [ok |-> FALSE,
          metadata |-> ConnectFailed(md, "Authentication failed: ", "ApiException")]

(* the loop over the datasets: one entry per downloaded file or failure,
   the record counts of the entries that have one, the failures *)
RECURSIVE Download(_)
Download(ds) ==
    IF ds = <<>> THEN [entries |-> <<>>, total |-> 0, failed |-> 0]
    ELSE LET d == Head(ds)
             rest == Download(Tail(ds))
         IN  CASE ~d.named -> rest
               [] d.download = "csv" ->
                    [rest EXCEPT !.entries = <<"success">> \o @,
                                 !.total = @ + d.n]
               [] d.download = "zip" ->
                    [rest EXCEPT !.entries = [i \in 1..d.n |-> "success"] \o @]
               [] OTHER ->
                    [rest EXCEPT !.entries = <<"failed">> \o @,
                                 !.failed = @ + 1]

(* the metadata update that ends KaggleConnector.extract() *)
KaggleExtractMetadata(md, ds) ==
    MetaUpdate(md,
      [status |-> IF Download(ds).failed = 0 THEN "completed"
                  ELSE "completed_with_errors",
       record_count |-> Download(ds).total])

KaggleConnectCall ==
    /\ ctype = "kaggle" /\ pc = "idle"
    /\ LET c == KaggleConnect(env, metadata)
       IN  /\ metadata' = c.metadata
           /\ authenticated' = (authenticated \/ c.ok)
           /\ connectOK' = IF c.ok THEN "true" ELSE "false"
           /\ outcome' = ConnectReturned(c.ok)
    /\ reconnected' = (outcome = ConnectReturned(TRUE))
    /\ UNCHANGED <<otherVars, ctype, config, env, session, pc, calls, pagingVars,
                   written, sessionState>>

(* extract() up to "start extraction": the authentication check and the
   choice of the datasets; params holds the datasets of the call. *)
KaggleExtractStart ==
    /\ ctype = "kaggle" /\ pc = "idle" /\ calls < MaxCalls
    /\ calls' = calls + 1
    /\ LET c == KaggleConnect(env, metadata)
           md == IF authenticated THEN metadata ELSE c.metadata
       IN  /\ authenticated' = (authenticated \/ c.ok)
           /\ connectOK' = IF authenticated THEN connectOK
                           ELSE IF c.ok THEN "true" ELSE "false"
           /\ IF ~authenticated /\ ~c.ok
              THEN /\ metadata' = md
                   /\ written' = <<md.status>>
                   /\ outcome' = ExtractRaised("Not authenticated with Kaggle API")
                   /\ pc' = "idle" /\ params' = params
              ELSE \E arg \in {NotGiven, Kwarg(TRUE, <<DatasetSpec(TRUE, "csv", 2)>>)} :
                     LET ds == IF arg.given /\ arg.value # <<>> THEN arg.value
                               ELSE config.datasets
                     IN  IF ds = <<>>
                         THEN /\ metadata' = md
                              /\ written' = <<>>
                              /\ outcome' = ExtractReturned(<<>>)
                              /\ pc' = "idle" /\ params' = params
                         ELSE /\ metadata' = ExtractionStarted(md)
                              /\ written' = <<metadata'.status>>
                              /\ outcome' = NoOutcome
                              /\ pc' = "downloading"
                              /\ params' = [datasets |-> ds]
    /\ reconnected' = FALSE
    /\ UNCHANGED <<otherVars, ctype, config, env, session, position, next_cursor,
                   total_count, more_pages, all_results, requests, pages,
                   lastResp, sessionState, callParams, endpoint_name>>

(* the rest of extract(): the datasets are downloaded and the metadata
   updated *)
KaggleExtractFinish ==
    /\ ctype = "kaggle" /\ pc = "downloading"
    /\ metadata' = KaggleExtractMetadata(metadata, params.datasets)
    /\ written' = Append(written, metadata'.status)
    /\ outcome' = ExtractReturned(Download(params.datasets).entries)
    /\ pc' = "idle"
    /\ UNCHANGED <<reconnected, otherVars, ctype, config, env, session, authenticated, calls,
                   connectOK, pagingVars, sessionState>>

----------------------------------------------------------------------------
(* Two KaggleConnector objects in one process *)

(* connect() up to the authentication: a connector whose configuration
   holds "username" and "key" writes them to ~/.kaggle/kaggle.json.  A
   configuration is the username it holds, "" when it holds none. *)
write_credentials ==
    \E i \in {1, 2} :
      /\ pair.at[i] = "idle" /\ pair.connects[i] < MaxCalls
      /\ pair' = [pair EXCEPT
                    !.at[i] = "written",
                    !.connects[i] = @ + 1,
                    !.file = IF pair.config[i] # "" THEN pair.config[i] ELSE @]
      /\ UNCHANGED <<connectorVars, registry, factoryOutcome, helper>>

(* The rest of connect(): self.api.authenticate() takes the credentials
   that kaggle.json holds at that moment and fails when there is no file;
   self.authenticated is set when it succeeded. *)
authenticate ==
    \E i \in {1, 2} :
      /\ pair.at[i] = "written"
      /\ pair' = [pair EXCEPT
                    !.at[i] = "idle",
                    !.user[i] = IF pair.file # "" THEN pair.file ELSE @]
      /\ UNCHANGED <<connectorVars, registry, factoryOutcome, helper>>

(* extract() of an authenticated connector: the datasets are downloaded
   with the account self.api was authenticated for. *)
download ==
    \E i \in {1, 2} :
      /\ pair.at[i] = "idle" /\ pair.user[i] # ""
      /\ pair.results[i] # pair.user[i]
      /\ pair' = [pair EXCEPT !.results[i] = pair.user[i]]
      /\ UNCHANGED <<connectorVars, registry, factoryOutcome, helper>>

----------------------------------------------------------------------------
(* ConnectorFactory *)

(* the class attribute CONNECTOR_TYPES as the module defines it *)
CONNECTOR_TYPES ==
    [t \in {"file", "api", "kaggle"} |->
        CASE t = "file" -> "FileConnector"
          [] t = "api" -> "APIConnector"
          [] OTHER -> "KaggleConnector"]

NoFactoryCall == [op |-> "none"]

Registered(reg, t, C) ==
    [x \in DOMAIN reg \cup {t} |-> IF x = t THEN C ELSE reg[x]]

(* a factory call that raised, and one that returned a connector *)
FactoryRaised(exc, msg) ==
    [kind |-> "raised", exc |-> exc, msg |-> msg, constructed |-> <<>>]
FactoryReturned(connector) ==
    [kind |-> "returned", connector |-> connector,
     constructed |-> <<connector.class>>]

(* connector_class(name, config): "config or {}" makes None the empty
   mapping; the constructors call self.config.get, which a value that is
   not a mapping does not have. *)
Construct(C, name, cfg) ==
    IF cfg = "other"
    THEN [kind |-> "raised", exc |-> "AttributeError",
          msg |-> [text |-> "object has no attribute 'get'"],
          constructed |-> <<C>>]
    ELSE FactoryReturned([class |-> C, name |-> name, config |-> "mapping"])

(* a variant of SupportedTypes that names the types the module defines *)
SupportedTypesBuiltin(reg) == DOMAIN CONNECTOR_TYPES

(* supported_types = list(cls.CONNECTOR_TYPES.keys()), as a set *)
SupportedTypes(reg) == DOMAIN reg

(* create_connector() *)
CreateConnector(reg, name, t, cfg) ==
    IF t \notin DOMAIN reg
    THEN FactoryRaised("ValueError",
            [text |-> "Unsupported connector type", type |-> t,
             supported |-> SupportedTypes(reg)])
    ELSE Construct(reg[t], name, cfg)

(* Configuration files.  A text is the sequence of its parts, "" being
   <<>>; every text below that parses has at most one part.  The value of
   a key of a file is a literal text, a ${VAR} placeholder, or Absent. *)
Lit(tokens) == [t |-> "lit", s |-> tokens]
Var(v) == [t |-> "var", s |-> <<v>>]

(* the file read by load_config_with_env_vars: whether it exists, the shape
   of its text (an object, an array, or no JSON at all), and for an object
   its "name", "type" and "config" values *)
ConfigFile(syntax, name, type, cfg) ==
    [exists |-> TRUE, syntax |-> syntax, name |-> name, type |-> type,
     config |-> cfg]
MissingFile ==
    [exists |-> FALSE, syntax |-> "object", name |-> Absent, type |-> Absent,
     config |-> "absent"]

(* os.environ.get(env_var, '') *)
EnvGet(e, v) == IF e[v].set THEN e[v].s ELSE <<>>

(* re.sub over one value: a placeholder becomes the variable's value *)
Substitute(piece, e) ==
    IF piece.t = "var" THEN EnvGet(e, piece.s[1]) ELSE piece.s

(* json.loads of a string literal fails when the text between its quotes
   holds a quote of its own *)
ValidString(tokens) == \A i \in DOMAIN tokens : tokens[i] # "\""

(* the str made of the parts *)
Text(tokens) == IF tokens = <<>> THEN "" ELSE tokens[1]

(* the value json.loads gives a key, config.get(key) being None when the
   key is absent *)
Loaded(piece, e) ==
    IF piece.t = "absent" THEN JNull ELSE JStr(Text(Substitute(piece, e)))

(* load_config_with_env_vars() *)
LoadConfig(file, e) ==
    CASE ~file.exists -> Raised("FileNotFoundError")
      [] file.syntax = "broken" -> Raised("JSONDecodeError")
      [] file.syntax = "array" -> JList(<<>>)
      [] \E k \in {"name", "type"} :
            file[k].t # "absent" /\ ~ValidString(Substitute(file[k], e)) ->
            Raised("JSONDecodeError")
      [] OTHER -> [t |-> "config", name |-> Loaded(file.name, e),
                   type |-> Loaded(file.type, e), config |-> file.config]

(* a variant of LacksRequired that only looks for the keys *)
LacksRequiredKeysOnly(name, type) == name.t = "null" \/ type.t = "null"

(* "not name or not connector_type" *)
LacksRequired(name, type) == ~Truthy(name) \/ ~Truthy(type)

(* create_connector_from_config(): config.get("config", {}) gives the
   empty mapping when the key is absent *)
CreateConnectorFromConfig(reg, file, e) ==
    LET c == LoadConfig(file, e)
    IN  CASE c.t = "raise" /\ c.exc = "FileNotFoundError" ->
               FactoryRaised("FileNotFoundError",
                             [text |-> "No such file or directory"])
          [] c.t = "raise" ->
               FactoryRaised("ValueError",
                             [text |-> "Invalid JSON in configuration file"])
          [] c.t = "list" ->
               FactoryRaised("AttributeError",
                             [text |-> "object has no attribute 'get'"])
          [] LacksRequired(c.name, c.type) ->
               FactoryRaised("ValueError",
                  [text |-> "Configuration must include 'name' and 'type'"])
          [] OTHER ->
               CreateConnector(reg, c.name.s, c.type.s,
                               IF c.config = "absent" THEN "mapping"
                               ELSE c.config)

(* connectors[name] = connector *)
Keyed(connectors, name, connector) ==
    [n \in DOMAIN connectors \cup {name} |->
        IF n = name THEN connector ELSE connectors[n]]

NoConnectors == [n \in {} |-> <<>>]

(* a variant of ScanOne in which a name already in the mapping keeps its
   connector *)
ScanOneKeepsFirst(reg, entry, e, acc) ==
    LET r == CreateConnectorFromConfig(reg, entry.file, e)
    IN  IF ~entry.json THEN acc
        ELSE IF r.kind = "returned"
        THEN [acc EXCEPT
                !.connectors =
                    IF r.connector.name \in DOMAIN @ THEN @
                    ELSE Keyed(@, r.connector.name, r.connector),
                !.constructed = @ \o r.constructed]
        ELSE [acc EXCEPT !.constructed = @ \o r.constructed,
                         !.skipped = @ + 1]

(* one iteration of the loop over os.listdir(config_dir) *)
ScanOne(reg, entry, e, acc) ==
    LET r == CreateConnectorFromConfig(reg, entry.file, e)
    IN  IF ~entry.json THEN acc
        ELSE IF r.kind = "returned"
        THEN [acc EXCEPT
                !.connectors = Keyed(@, r.connector.name, r.connector),
                !.constructed = @ \o r.constructed]
        ELSE [acc EXCEPT !.constructed = @ \o r.constructed,
                         !.skipped = @ + 1]

RECURSIVE ScanFrom(_, _, _, _)
ScanFrom(reg, listing, e, acc) ==
    IF listing = <<>> THEN acc
    ELSE ScanFrom(reg, Tail(listing), e, ScanOne(reg, Head(listing), e, acc))

(* create_connectors_from_directory() *)
CreateConnectorsFromDirectory(reg, dir, e) ==
    ScanFrom(reg, IF dir.isdir THEN dir.listing ELSE <<>>, e,
             [kind |-> "returned", connectors |-> NoConnectors,
              constructed |-> <<>>, skipped |-> 0])

(* the files, the directories and the process environments the factory
   meets *)
ConfigFiles ==
    {MissingFile, ConfigFile("broken", Absent, Absent, "absent"),
     ConfigFile("array", Absent, Absent, "absent")}
    \cup {ConfigFile("object", n, t, c) :
            n \in {Absent, Lit(<<>>), Lit(<<"sales">>), Lit(<<"stock">>),
                   Var("CONNECTOR_NAME")},
            t \in {Absent, Lit(<<>>), Lit(<<"api">>), Lit(<<"graphql">>),
                   Var("CONNECTOR_TYPE")},
            c \in {"absent", "mapping", "other"}}

DirEntry(json, file) == [json |-> json, file |-> file]

(* the configuration directories the factory meets: a path that is no
   directory, and the listings of at most MaxListing entries *)
Directories ==
    LET entries ==
          {DirEntry(TRUE, ConfigFile("broken", Absent, Absent, "absent")),
           DirEntry(TRUE, ConfigFile("object", Lit(<<"sales">>), Lit(<<"api">>), "mapping")),
           DirEntry(TRUE, ConfigFile("object", Lit(<<"sales">>), Lit(<<"file">>), "absent")),
           DirEntry(TRUE, ConfigFile("object", Lit(<<"stock">>), Lit(<<"graphql">>), "mapping")),
           DirEntry(TRUE, ConfigFile("object", Var("CONNECTOR_NAME"), Lit(<<"api">>), "other")),
           DirEntry(TRUE, ConfigFile("object", Lit(<<"stock">>), Absent, "mapping")),
           DirEntry(FALSE, ConfigFile("object", Lit(<<"stock">>), Lit(<<"file">>), "mapping"))}
    IN  {[isdir |-> FALSE, listing |-> <<>>]}
        \cup {[isdir |-> TRUE, listing |-> l] : l \in SeqsUpTo(entries, MaxListing)}

(* os.environ: for each variable whether it is set, and its value *)
ProcessEnvs ==
    {[v \in {"CONNECTOR_NAME", "CONNECTOR_TYPE"} |->
        IF v = "CONNECTOR_NAME" THEN n ELSE t] :
        n \in {[set |-> FALSE, s |-> <<>>], [set |-> TRUE, s |-> <<"sales">>],
               [set |-> TRUE, s |-> <<"sa", "\"", "les">>]},
        t \in {[set |-> FALSE, s |-> <<>>], [set |-> TRUE, s |-> <<"file">>]}}

FactoryIdle == factoryOutcome.op \in {"none", "register"}

register_connector_type ==
    /\ FactoryIdle
    /\ \E t \in {"graphql", "api"}, C \in {"GraphQLConnector", "FileConnector"} :
         /\ registry' = Registered(registry, t, C)
         /\ factoryOutcome' = [op |-> "register", tag |-> t, class |-> C]
    /\ UNCHANGED <<connectorVars, helper, pair>>

create_connector ==
    /\ FactoryIdle
    /\ \E name \in {"sales", "stock"}, t \in {"file", "api", "kaggle", "graphql", "ftp"}, cfg \in {"none", "mapping"} :
         factoryOutcome' =
            [op |-> "create", name |-> name, tag |-> t, config |-> cfg,
             result |-> CreateConnector(registry, name, t, cfg)]
    /\ UNCHANGED <<connectorVars, registry, helper, pair>>

create_connector_from_config ==
    /\ FactoryIdle
    /\ \E file \in ConfigFiles :
         factoryOutcome' =
            [op |-> "from_config", file |-> file,
             result |-> CreateConnectorFromConfig(registry, file, env)]
    /\ UNCHANGED <<connectorVars, registry, helper, pair>>

create_connectors_from_directory ==
    /\ FactoryIdle
    /\ \E dir \in Directories :
         factoryOutcome' =
            [op |-> "from_directory", dir |-> dir,
             result |-> CreateConnectorsFromDirectory(registry, dir, env)]
    /\ UNCHANGED <<connectorVars, registry, helper, pair>>

----------------------------------------------------------------------------
(* Helpers *)

NoHelperCall == [fn |-> "none"]

(* One helper call is followed per behaviour: the helpers keep nothing
   between calls. *)
HelperIdle == helper.fn = "none"

(* URLs are sequences of characters. *)
StartsWith(s, prefix) ==
    Len(s) >= Len(prefix) /\ SubSeq(s, 1, Len(prefix)) = prefix
EndsWith(s, suffix) ==
    Len(s) >= Len(suffix)
    /\ SubSeq(s, Len(s) - Len(suffix) + 1, Len(s)) = suffix

Http == <<"h", "t", "t", "p", ":", "/", "/">>
Https == <<"h", "t", "t", "p", "s", ":", "/", "/">>

(* a variant of WithoutTrailingSlash that leaves the base URL as it is *)
WithTrailingSlash(base_url) == base_url

(* "remove trailing slash for base_url if exists": base_url[:-1] *)
WithoutTrailingSlash(base_url) ==
    IF EndsWith(base_url, <<"/">>)
    THEN SubSeq(base_url, 1, Len(base_url) - 1)
    ELSE base_url

(* "add leading slash to endpoint if not exists" *)
WithLeadingSlash(endpoint) ==
    IF endpoint # <<>> /\ ~StartsWith(endpoint, <<"/">>)
    THEN <<"/">> \o endpoint
    ELSE endpoint

(* _get_url(), endpoint being endpoints.get(endpoint_name, "") *)
GetUrl(base_url, endpoint) ==
    IF StartsWith(endpoint, Http) \/ StartsWith(endpoint, Https)
    THEN endpoint
    ELSE WithoutTrailingSlash(base_url) \o WithLeadingSlash(endpoint)

(* n slashes *)
Slashes(n) == [i \in 1..n |-> "/"]

(* Records to flatten.  A mapping is the sequence of its items in
   insertion order, a key or a string the sequence of its parts, "a.b"
   being <<"a", ".", "b">>. *)
Item(k, v) == [k |-> k, v |-> v]
Mapping(items) == [t |-> "dict", items |-> items]
Str(tokens) == [t |-> "str", s |-> tokens]

(* flattened[key] = value: a key already there keeps its place *)
Put(items, k, v) ==
    IF \E i \in DOMAIN items : items[i].k = k
    THEN [i \in DOMAIN items |-> IF items[i].k = k THEN Item(k, v) ELSE items[i]]
    ELSE Append(items, Item(k, v))

(* json.dumps of a number, a string or None *)
DumpsScalar(v) ==
    CASE v.t = "int" -> <<CHOOSE s \in DOMAIN Numerals : Numerals[s] = v.n>>
      [] v.t = "str" -> <<"\"">> \o v.s \o <<"\"">>
      [] OTHER -> <<"null">>

(* json.dumps of the elements of a list, ", " between them *)
RECURSIVE DumpsElements(_)
DumpsElements(xs) ==
    IF xs = <<>> THEN <<>>
    ELSE IF Len(xs) = 1 THEN DumpsScalar(xs[1])
    ELSE DumpsScalar(xs[1]) \o <<", ">> \o DumpsElements(Tail(xs))

(* json.dumps(value) of a list of scalars *)
Dumps(xs) == <<"[">> \o DumpsElements(xs) \o <<"]">>

(* a variant of NewKey that joins the key to the prefix even when the
   prefix is empty *)
NewKeyAlwaysJoined(prefix, key) == prefix \o <<".">> \o key

(* new_key *)
NewKey(prefix, key) ==
    IF prefix # <<>> THEN prefix \o <<".">> \o key ELSE key

(* _flatten_json(nested_json, flattened, prefix): the items of flattened
   when the call ends *)
RECURSIVE FlattenJson(_, _, _)
FlattenJson(nested_json, flattened, prefix) ==
    IF nested_json = <<>> THEN flattened
    ELSE LET value == Head(nested_json).v
             new_key == NewKey(prefix, Head(nested_json).k)
             after ==
                CASE value.t = "dict" -> FlattenJson(value.items, flattened, new_key)
                  [] value.t = "list" -> Put(flattened, new_key, Str(Dumps(value.xs)))
                  [] OTHER -> Put(flattened, new_key, value)
         IN  FlattenJson(Tail(nested_json), after, prefix)

(* the records the flattening is applied to *)
Records ==
    LET scalars == {JInt(1), Str(<<"x">>), JNull}
        lists == {JList(<<>>), JList(<<JInt(1), JInt(2)>>),
                  JList(<<Str(<<"x">>), JNull>>)}
        mappings ==
          {Mapping(<<>>),
           Mapping(<<Item(<<"b">>, JInt(1))>>),
           Mapping(<<Item(<<"b">>, JInt(1)),
                     Item(<<"c">>, JList(<<JInt(1), JInt(2)>>))>>),
           Mapping(<<Item(<<"b">>, Mapping(<<Item(<<"c">>, Str(<<"x">>))>>))>>)}
        items == {Item(k, v) : k \in {<<"a">>, <<"b">>, <<"a", ".", "b">>},
                               v \in scalars \cup lists \cup mappings}
    IN  {r \in SeqsUpTo(items, MaxKeys) :
            \A i, j \in DOMAIN r : i # j => r[i].k # r[j].k}

flatten_json ==
    /\ HelperIdle
    /\ \E item \in Records :
         helper' = [fn |-> "_flatten_json", item |-> item,
                    result |-> FlattenJson(item, <<>>, <<>>)]
    /\ UNCHANGED <<connectorVars, registry, factoryOutcome, pair>>

(* Paths are sequences of components, a component the sequence of the
   parts of its name; slash tells whether the path is written with a
   trailing slash.  A file system is its directories and its files. *)
Path(parts, slash) == [parts |-> parts, slash |-> slash]

(* os.path.dirname(destination): "" is <<>> *)
Dirname(dest) ==
    IF dest.slash THEN dest.parts
    ELSE SubSeq(dest.parts, 1, Len(dest.parts) - 1)

(* the directories os.makedirs(dir, exist_ok=True) leaves in place *)
Makedirs(dirs, dir) == dirs \cup {SubSeq(dir, 1, n) : n \in 1..Len(dir)}

(* filename = f"{self.name}_{timestamp}.{file_format}" *)
SynthesizedName(name, timestamp, file_format) ==
    <<name, "_", timestamp, ".", file_format>>

(* the error of the branch that matches no data type and format, "" if
   one matches *)
Unsupported(data, file_format) ==
    CASE data = "dataframe" /\ file_format \notin {"csv", "json", "parquet"} ->
            "Unsupported file format"
      [] data = "list" /\ file_format \notin {"json", "csv"} ->
            "Unsupported file format for list data"
      [] data \notin {"dataframe", "list"} -> "Unsupported data type"
      [] OTHER -> ""

(* save_data(): os.makedirs("") raises FileNotFoundError *)
SaveData(fs, name, data, dest, file_format, timestamp) ==
    IF Dirname(dest) = <<>>
    THEN [kind |-> "raised", exc |-> "FileNotFoundError",
          text |-> "No such file or directory", path |-> <<>>, fs |-> fs]
    ELSE LET dirs == Makedirs(fs.dirs, Dirname(dest))
             destination ==
                IF dest.parts \in dirs
                THEN Append(dest.parts,
                            SynthesizedName(name, timestamp, file_format))
                ELSE dest.parts
         IN  IF Unsupported(data, file_format) # ""
             THEN [kind |-> "raised",
                   exc |-> IF data \in {"dataframe", "list"} THEN "ValueError"
                           ELSE "TypeError",
                   text |-> Unsupported(data, file_format), path |-> <<>>,
                   fs |-> [fs EXCEPT !.dirs = dirs]]
             ELSE [kind |-> "returned", exc |-> "", text |-> "",
                   path |-> destination,
                   fs |-> [dirs |-> dirs, files |-> fs.files \cup {destination}]]

(* save_data() on an empty file system, on one that holds the directory
   data and on one that holds data/raw as well, with the destinations
   data/out.csv, out.csv, data/raw, data/raw/ and data *)
save_data ==
    /\ HelperIdle
    /\ \E fs \in {[dirs |-> d, files |-> {}] :
                    d \in {{}, {<<<<"data">>>>},
                           {<<<<"data">>>>, <<<<"data">>, <<"raw">>>>}}},
          dest \in {Path(<<<<"data">>, <<"out.csv">>>>, FALSE),
                    Path(<<<<"out.csv">>>>, FALSE),
                    Path(<<<<"data">>, <<"raw">>>>, FALSE),
                    Path(<<<<"data">>, <<"raw">>>>, TRUE),
                    Path(<<<<"data">>>>, FALSE)},
          data \in {"dataframe", "list", "dict"},
          file_format \in {"csv", "json", "parquet", "xlsx"},
          timestamp \in {"20260101_120000"} :
         helper' = [fn |-> "save_data", fs |-> fs, data |-> data,
                    destination |-> dest, file_format |-> file_format,
                    result |-> SaveData(fs, ConnectorName, data, dest,
                                        file_format, timestamp)]
    /\ UNCHANGED <<connectorVars, registry, factoryOutcome, pair>>

(* The walk along results_path on the bodies a server may answer: an
   object without the first key, with the first key only, with the first
   two, with the whole path, with an array where an object is expected,
   and a bare array; the paths are "data", "data.items" and
   "data.items.rows". *)
extract_results ==
    /\ HelperIdle
    /\ \E data \in
            {JDict(EmptyDict),
             JDict("data" :> JList(<<1>>)),
             JDict("data" :> JDict(EmptyDict)),
             JDict("data" :> JDict("items" :> JList(<<1>>))),
             JDict("data" :> JDict("items" :> JDict(EmptyDict))),
             JDict("data" :> JDict("items" :> JDict("rows" :> JList(<<1>>)))),
             JList(<<1>>)},
          results_path \in
            {<<"data">>, <<"data", ".", "items">>,
             <<"data", ".", "items", ".", "rows">>} :
         helper' = [fn |-> "extract_results", data |-> data,
                    results_path |-> results_path,
                    result |-> ExtractResults(data, results_path)]
    /\ UNCHANGED <<connectorVars, registry, factoryOutcome, pair>>

(* _get_url() on the base URLs and the endpoint values of the
   configurations: an empty base URL or one that ends with up to MaxSlashes
   slashes; an empty endpoint, an absolute URL, or a path that begins with
   up to MaxSlashes slashes *)
get_url ==
    /\ HelperIdle
    /\ \E base_url \in
            {<<>>} \cup
            {scheme \o host \o Slashes(n) :
                scheme \in {Http, Https},
                host \in {<<"a">>, <<"a", "/", "v">>}, n \in 0..MaxSlashes},
          endpoint \in
            {<<>>, Http \o <<"b", "/", "x">>, Https \o <<"b">>} \cup
            {Slashes(n) \o path :
                n \in 0..MaxSlashes,
                path \in {<<"p">>, <<"p", "/", "q">>,
                          <<"h", "t", "t", "p">>}} :
         helper' = [fn |-> "_get_url", base_url |-> base_url,
                    endpoint |-> endpoint,
                    result |-> GetUrl(base_url, endpoint)]
    /\ UNCHANGED <<connectorVars, registry, factoryOutcome, pair>>

----------------------------------------------------------------------------
Init ==
    /\ ctype \in {"api", "file", "kaggle"}
    /\ config \in CASE ctype = "api" -> ApiConfigs
                  [] ctype = "file" -> FileConfigs
                  [] OTHER -> KaggleConfigs
    /\ env \in IF ctype = "api" THEN ApiEnvs ELSE OtherEnvs
    /\ session = FALSE
    /\ authenticated = FALSE
    /\ metadata = InitialMetadata
    /\ pc = "idle"
    /\ calls = 0
    /\ outcome = NoOutcome
    /\ connectOK = "never"
    /\ params = [limit |-> Absent, pos |-> Absent, category |-> Absent]
    /\ position = 0
    /\ next_cursor = JNull
    /\ total_count = JNull
    /\ more_pages = FALSE
    /\ all_results = <<>>
    /\ requests = <<>>
    /\ pages = <<>>
    /\ lastResp = NoResponse
    /\ written = <<>>
    /\ sessionState = NoSession
    /\ callParams = NoLayer
    /\ endpoint_name = ""
    /\ reconnected = FALSE
    /\ registry = CONNECTOR_TYPES
    /\ factoryOutcome = NoFactoryCall
    /\ helper = NoHelperCall
    /\ pair = <<>>

Next ==
    \/ ApiConnectCall
    \/ ApiExtractStart
    \/ ApiPageRequest
    \/ ApiSingleRequest
    \/ ApiExtractFinish
    \/ FileConnectCall
    \/ FileExtractStart
    \/ FileExtractFinish
    \/ KaggleConnectCall
    \/ KaggleExtractStart
    \/ KaggleExtractFinish

Spec == Init /\ [][Next]_vars

(* The factory on its own: no connector object is followed, the process
   environment is chosen, and the caller issues factory calls. *)
NoConnectorObject ==
    /\ ctype = "none"
    /\ config = <<>>
    /\ session = FALSE
    /\ authenticated = FALSE
    /\ metadata = InitialMetadata
    /\ pc = "idle"
    /\ calls = 0
    /\ outcome = NoOutcome
    /\ connectOK = "never"
    /\ params = [limit |-> Absent, pos |-> Absent, category |-> Absent]
    /\ position = 0
    /\ next_cursor = JNull
    /\ total_count = JNull
    /\ more_pages = FALSE
    /\ all_results = <<>>
    /\ requests = <<>>
    /\ pages = <<>>
    /\ lastResp = NoResponse
    /\ written = <<>>
    /\ sessionState = NoSession
    /\ callParams = NoLayer
    /\ endpoint_name = ""
    /\ reconnected = FALSE

FactoryInit ==
    /\ NoConnectorObject
    /\ env \in ProcessEnvs
    /\ registry = CONNECTOR_TYPES
    /\ factoryOutcome = NoFactoryCall
    /\ helper = NoHelperCall
    /\ pair = <<>>

FactoryNext ==
    \/ register_connector_type
    \/ create_connector
    \/ create_connector_from_config
    \/ create_connectors_from_directory

FactorySpec == FactoryInit /\ [][FactoryNext]_vars

(* The generator on its own: _handle_pagination() and a consumer that
   takes page after page as extract() does, one step per suspension of the
   generator, and that may stop after any page.  The connector is
   connected, the generator has been created and the consumer has asked
   for the first page. *)
GeneratorInit ==
    /\ ctype = "api"
    /\ config \in {cfg \in ApiConfigs \ LayerConfigs :
                     /\ cfg.pagination /\ cfg.auth_type = "none"
                     /\ cfg.ptype \in {"offset", "page", "cursor"}
                     /\ cfg.results_path = PathData}
    /\ env \in ApiEnvs
    /\ session = TRUE
    /\ sessionState = ApiSession(config)
    /\ authenticated = FALSE
    /\ metadata = InitialMetadata
    /\ pc = "running"
    /\ calls = 0
    /\ outcome = ConnectReturned(TRUE)
    /\ connectOK = "true"
    /\ params = InitialParams(config, NoLayer)
    /\ position = InitialPosition(config)
    /\ next_cursor = JNull
    /\ total_count = JNull
    /\ more_pages = TRUE
    /\ all_results = <<>>
    /\ requests = <<>>
    /\ pages = <<>>
    /\ lastResp = NoResponse
    /\ written = <<>>
    /\ callParams = NoLayer
    /\ endpoint_name = "products"
    /\ reconnected = FALSE
    /\ registry = CONNECTOR_TYPES
    /\ factoryOutcome = NoFactoryCall
    /\ helper = NoHelperCall
    /\ pair = <<>>

GeneratorNext ==
    \/ GeneratorRequest
    \/ ConsumerNext
    \/ ConsumerStop

GeneratorSpec == GeneratorInit /\ [][GeneratorNext]_vars

(* Two Kaggle connectors with distinct configurations, created in one
   process whose user may have a kaggle.json of their own (account "u0");
   their connect() and extract() steps interleave. *)
PairInit ==
    /\ NoConnectorObject
    /\ env = <<>>
    /\ registry = CONNECTOR_TYPES
    /\ factoryOutcome = NoFactoryCall
    /\ helper = NoHelperCall
    /\ \E file \in {"", "u0"}, c1 \in {"", "u1"}, c2 \in {"", "u2"} :
         /\ c1 # c2
         /\ pair = [file0 |-> file, file |-> file, config |-> <<c1, c2>>,
                    at |-> <<"idle", "idle">>, connects |-> <<0, 0>>,
                    user |-> <<"", "">>, results |-> <<"", "">>]

PairNext ==
    \/ write_credentials
    \/ authenticate
    \/ download

PairSpec == PairInit /\ [][PairNext]_vars

(* The helpers on their own: no connector object is followed and the
   caller issues one call of _get_url, _flatten_json or save_data, or
   walks one response body along a results path. *)
HelperInit ==
    /\ NoConnectorObject
    /\ env = <<>>
    /\ registry = CONNECTOR_TYPES
    /\ factoryOutcome = NoFactoryCall
    /\ helper = NoHelperCall
    /\ pair = <<>>

HelperNext ==
    \/ get_url
    \/ flatten_json
    \/ save_data
    \/ extract_results

HelperSpec == HelperInit /\ [][HelperNext]_vars


----------------------------------------------------------------------------
(* Properties *)

TerminalStatus == {"completed", "completed_with_errors", "error"}

(* A paginated API traversal is under way and nothing has been raised. *)
Traversing(pt) ==
    ctype = "api" /\ pc = "paging" /\ config.pagination /\ config.ptype = pt

RECURSIVE Concat(_)
Concat(ps) == IF ps = <<>> THEN <<>> ELSE Head(ps) \o Concat(Tail(ps))

FullPage(p) == Len(p) = EngineLimit(params)

(* The short-page rule: one page per request; no page but the last is
   short; after a page, more_pages says whether that page was full. *)
ShortPageRule ==
    /\ Len(requests) = Len(pages)
    /\ \A i \in 1..(Len(pages) - 1) : FullPage(pages[i])
    /\ pages # <<>> => (more_pages <=> FullPage(pages[Len(pages)]))

(* C1, as stated: in offset mode, N full pages followed by a short page make
   exactly N+1 requests, after which the traversal ends, whatever the
   pagination configuration. *)
C1_ShortPageEndsAnyOffsetTraversal == Traversing("offset") => ShortPageRule

(* C1, amended: in offset mode, as long as no total count is known, N full
   pages followed by a short page make exactly N+1 requests, after which
   the traversal ends. *)
C1_ShortPageEndsOffsetTraversal ==
    (Traversing("offset") /\ total_count = JNull) => ShortPageRule

(* two full pages, then a short one, and the traversal has ended after
   three requests *)
C1_Witness ==
    /\ Traversing("offset") /\ total_count = JNull
    /\ Len(requests) = 3 /\ Len(pages) = 3
    /\ FullPage(pages[1]) /\ FullPage(pages[2]) /\ ~FullPage(pages[3])
    /\ ~more_pages

(* C2: in offset and page mode, once total_count is known, the traversal
   goes on after a page exactly when the accumulated position (requests
   made so far times limit) is below total_count, whatever the length of
   the page. *)
C2_TotalCountDecidesContinuation ==
    ((Traversing("offset") \/ Traversing("page"))
        /\ total_count # JNull /\ requests # <<>>)
    => /\ more_pages <=> (Len(requests) * EngineLimit(params) < total_count.n)
       /\ position = IF config.ptype = "offset"
                     THEN Len(requests) * EngineLimit(params)
                     ELSE Len(requests) + 1

(* in page mode with a known total, a short page was followed by another
   request, and the traversal ended after a full page *)
C2_Witness ==
    /\ Traversing("page") /\ total_count # JNull
    /\ Len(pages) >= 2
    /\ ~FullPage(pages[Len(pages) - 1])
    /\ FullPage(pages[Len(pages)])
    /\ ~more_pages

(* no next-cursor value at the configured path of response r: a key of the
   path is missing, or the value is null or the empty string *)
CursorMissing(r, path) ==
    \/ r.cur \in {Absent, JNull, JStr("")}
    \/ IsDeep(path) /\ ~r.hasMeta

(* C3: in cursor mode, a response (an object with the records under the
   results path) that has no next-cursor value at next_cursor_path has its
   page yielded and ends the traversal normally: nothing is raised and no
   further request is made. *)
C3_MissingCursorEndsTraversal ==
    (ctype = "api" /\ config.pagination /\ config.ptype = "cursor"
        /\ config.results_path # Path0
        /\ lastResp.http = "ok"
        /\ CursorMissing(lastResp, config.next_cursor_path))
    => /\ ~(outcome.op = "extract" /\ outcome.kind = "raised")
       /\ ~more_pages
       /\ Len(pages) = Len(requests)

(* C4: with pagination, extract() returns the concatenation, in request
   order, of the pages yielded and sets record_count to its length; an
   offset API of page size 2 holding 3 records, with no total count read,
   gives exactly those 3 records after exactly 2 requests. *)
C4_ExtractReturnsAllPages ==
    (ctype = "api" /\ config.pagination
        /\ outcome.op = "extract" /\ outcome.kind = "returned")
    => /\ outcome.result = Concat(pages)
       /\ metadata.status = "completed"
       /\ metadata.record_count = Len(Concat(pages))
       /\ (env.server = "byposition" /\ env.nrec = 3
             /\ config.ptype = "offset" /\ config.limit = 2
             /\ config.total_count_path = Path0)
          => (outcome.result = <<1, 2, 3>> /\ Len(requests) = 2)

(* the scenario: 3 records in pages of 2, returned after 2 requests *)
C4_Witness ==
    /\ ctype = "api" /\ config.pagination /\ config.ptype = "offset"
    /\ env.server = "byposition" /\ env.nrec = 3
    /\ config.limit = 2 /\ config.total_count_path = Path0
    /\ outcome.op = "extract" /\ outcome.kind = "returned"
    /\ pages = << <<1, 2>>, <<3>> >>
    /\ outcome.result = <<1, 2, 3>>
    /\ metadata.record_count = 3

(* C5: against a server that holds nrec records and serves the page the
   request addresses, the traversal is finite.  Every request but the last
   of such a traversal fetches a record not fetched before, so after
   nrec + 1 requests the traversal has ended. *)
C5_TraversalIsFinite ==
    (ctype = "api" /\ pc = "paging" /\ env.server = "byposition"
        /\ Len(requests) >= env.nrec + 1)
    => ~more_pages

(* C6: in page mode the k-th request of a traversal carries page = k. *)
C6_PageRequestsCarryPosition ==
    (ctype = "api" /\ config.pagination /\ config.ptype = "page")
    => \A k \in DOMAIN requests : requests[k].pos = JInt(k)

(* C7: whenever APIConnector.extract() has raised, metadata.status is
   "error" and metadata.error carries the message of the exception. *)
C7_RaisedExtractRecordsError ==
    (ctype = "api" /\ outcome.op = "extract" /\ outcome.kind = "raised")
    => /\ metadata.status = "error"
       /\ metadata.error # NoError
       /\ metadata.error[Len(metadata.error)] = outcome.exc

(* whether connect() would succeed on the connector as it is *)
CanConnect ==
    CASE ctype = "api" -> ApiConnect(config, metadata, sessionState).ok
      [] ctype = "file" -> FileConnect(config, metadata).ok
      [] OTHER -> KaggleConnect(env, metadata).ok

(* C8: for every connector type, extract() gets past its connection check
   (and so issues requests or reads data) only with the connection
   established: whenever connect() fails on the connector, extract() has
   raised "not connected" instead. *)
C8_ExtractRequiresConnection ==
    pc # "idle" => (CanConnect /\ connectOK # "false")

(* C9: for every connector type, a connect() that returned false has left
   metadata.status "error" with an error message. *)
C9_FailedConnectRecordsError ==
    (outcome.op = "connect" /\ outcome.kind = "returned" /\ ~outcome.ok)
    => (metadata.status = "error" /\ metadata.error # NoError)

(* C10: a terminal status changes back to in_progress only in the step
   that starts a new extract() call. *)
C10_StatusMonotonic ==
    [][(metadata.status \in TerminalStatus /\ metadata'.status = "in_progress")
          => calls' = calls + 1]_vars

(* a second extraction is in progress on a connector whose first
   extraction completed with records *)
C10_Witness ==
    /\ metadata.status = "in_progress"
    /\ calls = 2
    /\ metadata.record_count > 0

----------------------------------------------------------------------------
(* the status values extract() may write *)
ExtractStatus == TerminalStatus \cup {"in_progress"}

(* C11: for every connector type, an extract() call that has returned or
   raised leaves metadata.status in {completed, completed_with_errors,
   error}, has written in_progress on its way, and has written no status
   outside {in_progress, completed, completed_with_errors, error}. *)
C11_ExtractEndsInTerminalStatus ==
    (outcome.op = "extract" /\ outcome.kind \in {"returned", "raised"})
    => /\ metadata.status \in TerminalStatus
       /\ \E i \in DOMAIN written : written[i] = "in_progress"
       /\ \A i \in DOMAIN written : written[i] \in ExtractStatus

----------------------------------------------------------------------------
(* ConnectorFactory properties, checked under FactorySpec *)

(* C12: a create_connector call with a tag that is not registered at that
   moment raises the unsupported-type ValueError, which names the tag and
   exactly the tags registered at that moment; a create_connector call
   with tag t that directly follows register_connector_type(t, C) returns
   a connector of class C carrying the name it was given. *)
C12_RegistryDecidesCreation ==
    [][factoryOutcome'.op = "create" =>
         LET r == factoryOutcome'.result
             t == factoryOutcome'.tag
         IN  /\ t \notin DOMAIN registry =>
                  /\ r.kind = "raised" /\ r.exc = "ValueError"
                  /\ r.msg.text = "Unsupported connector type"
                  /\ r.msg.type = t
                  /\ r.msg.supported = DOMAIN registry
                  /\ r.constructed = <<>>
             /\ (factoryOutcome.op = "register" /\ factoryOutcome.tag = t) =>
                  /\ r.kind = "returned"
                  /\ r.connector.class = factoryOutcome.class
                  /\ r.connector.name = factoryOutcome'.name]_vars

C12_Witness ==
    /\ factoryOutcome.op = "create"
    /\ factoryOutcome.tag = "graphql"
    /\ "graphql" \notin DOMAIN CONNECTOR_TYPES
    /\ factoryOutcome.result.kind = "returned"
    /\ factoryOutcome.result.connector.class = "GraphQLConnector"

(* a loaded value that is absent or empty *)
AbsentOrEmpty(v) == v.t = "null" \/ (v.t = "str" /\ v.s = "")

(* the two errors create_connector_from_config() words itself *)
DescriptiveErrors ==
    {"Configuration must include 'name' and 'type'",
     "Invalid JSON in configuration file"}

(* C13: when the file exists and its text, after the substitution of the
   environment variables, is not valid JSON, or is an object whose name or
   type is absent or empty, create_connector_from_config raises a
   ValueError with one of its two descriptive messages, returns no
   connector and invokes no constructor. *)
C13_InvalidConfigCreatesNothing ==
    factoryOutcome.op = "from_config" =>
      LET c == LoadConfig(factoryOutcome.file, env)
          r == factoryOutcome.result
      IN  (/\ factoryOutcome.file.exists
           /\ \/ c.t = "raise"
              \/ (c.t = "config" /\ (AbsentOrEmpty(c.name) \/ AbsentOrEmpty(c.type))))
          => /\ r.kind = "raised"
             /\ r.exc = "ValueError"
             /\ r.msg.text \in DescriptiveErrors
             /\ r.constructed = <<>>

C13_Witness ==
    /\ factoryOutcome.op = "from_config"
    /\ factoryOutcome.file.name = Var("CONNECTOR_NAME")
    /\ factoryOutcome.file.type = Lit(<<"api">>)
    /\ ~env["CONNECTOR_NAME"].set
    /\ factoryOutcome.result.kind = "raised"
    /\ factoryOutcome.result.msg.text = "Configuration must include 'name' and 'type'"

(* what create_connector_from_config() makes of a directory entry now *)
LoadOf(entry) == CreateConnectorFromConfig(registry, entry.file, env)
Loads(entry) == entry.json /\ LoadOf(entry).kind = "returned"

(* the entries create_connectors_from_directory() scanned *)
Scanned ==
    IF factoryOutcome.dir.isdir THEN factoryOutcome.dir.listing ELSE <<>>

(* every connector of the mapping is keyed by its name and comes from a
   scanned file that loads *)
MappingFromScannedFiles ==
    \A n \in DOMAIN factoryOutcome.result.connectors :
       /\ factoryOutcome.result.connectors[n].name = n
       /\ \E i \in DOMAIN Scanned :
             /\ Loads(Scanned[i])
             /\ LoadOf(Scanned[i]).connector = factoryOutcome.result.connectors[n]

(* the connector of scanned file i is in the mapping under its name *)
InMapping(i) ==
    LET c == LoadOf(Scanned[i]).connector
    IN  /\ c.name \in DOMAIN factoryOutcome.result.connectors
        /\ factoryOutcome.result.connectors[c.name] = c

(* C14 as stated: create_connectors_from_directory returns, never raises,
   and the mapping holds, under its name, the connector of every scanned
   file that loads, and nothing else. *)
C14_EveryLoadedFileIsInMapping ==
    factoryOutcome.op = "from_directory" =>
      /\ factoryOutcome.result.kind = "returned"
      /\ MappingFromScannedFiles
      /\ \A i \in DOMAIN Scanned : Loads(Scanned[i]) => InMapping(i)

(* scanned file i loads and no file scanned after it loads a connector of
   the same name *)
LastOfItsName(i) ==
    /\ Loads(Scanned[i])
    /\ \A j \in DOMAIN Scanned :
          (j > i /\ Loads(Scanned[j]))
          => LoadOf(Scanned[j]).connector.name # LoadOf(Scanned[i]).connector.name

(* C14, amended: create_connectors_from_directory returns, never raises,
   and the mapping holds, under its name, the connector of every scanned
   file that loads and is the last scanned file of its connector name, and
   nothing else. *)
C14_LastLoadedFileOfEachNameIsInMapping ==
    factoryOutcome.op = "from_directory" =>
      /\ factoryOutcome.result.kind = "returned"
      /\ MappingFromScannedFiles
      /\ \A i \in DOMAIN Scanned : LastOfItsName(i) => InMapping(i)

C14_Witness ==
    /\ factoryOutcome.op = "from_directory"
    /\ Len(Scanned) = 2
    /\ Loads(Scanned[1]) /\ Loads(Scanned[2])
    /\ LoadOf(Scanned[1]).connector.name = LoadOf(Scanned[2]).connector.name
    /\ LoadOf(Scanned[1]).connector.class # LoadOf(Scanned[2]).connector.class
    /\ InMapping(2)
    /\ factoryOutcome.result.skipped = 0

----------------------------------------------------------------------------
(* Helper properties, checked under HelperSpec *)

RECURSIVE StripTrailing(_)
StripTrailing(s) ==
    IF EndsWith(s, <<"/">>) THEN StripTrailing(SubSeq(s, 1, Len(s) - 1)) ELSE s

RECURSIVE StripLeading(_)
StripLeading(s) ==
    IF StartsWith(s, <<"/">>) THEN StripLeading(Tail(s)) ELSE s

IsAbsolute(endpoint) == StartsWith(endpoint, Http) \/ StartsWith(endpoint, Https)

(* the base and the endpoint path with exactly one slash between them *)
JoinedByOneSlash(base_url, endpoint) ==
    StripTrailing(base_url) \o <<"/">> \o StripLeading(endpoint)

(* C15 as stated: for a base URL that ends with any number of slashes and
   an endpoint path that begins with any number of slashes, _get_url
   returns the two joined by exactly one slash; an endpoint that is an
   absolute http(s) URL is returned unchanged. *)
C15_UrlJoinedByOneSlash ==
    (helper.fn = "_get_url" /\ helper.endpoint # <<>>)
    => IF IsAbsolute(helper.endpoint)
       THEN helper.result = helper.endpoint
       ELSE helper.result = JoinedByOneSlash(helper.base_url, helper.endpoint)

(* C15, amended: for a base URL that ends with at most one slash and an
   endpoint path that begins with at most one slash, _get_url returns the
   two joined by exactly one slash; an endpoint that is an absolute
   http(s) URL is returned unchanged. *)
C15_UrlJoinedByOneSlashWhenSingle ==
    (helper.fn = "_get_url" /\ helper.endpoint # <<>>)
    => IF IsAbsolute(helper.endpoint)
       THEN helper.result = helper.endpoint
       ELSE (~EndsWith(helper.base_url, <<"/", "/">>)
             /\ ~StartsWith(helper.endpoint, <<"/", "/">>))
            => helper.result = JoinedByOneSlash(helper.base_url, helper.endpoint)

C15_Witness ==
    /\ helper.fn = "_get_url"
    /\ helper.base_url = Https \o <<"a", "/", "v", "/">>
    /\ helper.endpoint = <<"p">>
    /\ helper.result = Https \o <<"a", "/", "v", "/", "p">>

(* no value of the record is a mapping or a list *)
AllScalar(items) ==
    \A i \in DOMAIN items : items[i].v.t \notin {"dict", "list"}

(* C16: flattening the result of a flattening returns it unchanged, and a
   record whose values are all scalars is returned unchanged by
   flattening. *)
C16_FlattenIsIdempotent ==
    helper.fn = "_flatten_json" =>
      /\ FlattenJson(helper.result, <<>>, <<>>) = helper.result
      /\ AllScalar(helper.item) => helper.result = helper.item

C16_Witness ==
    /\ helper.fn = "_flatten_json"
    /\ helper.item =
          <<Item(<<"a">>, Mapping(<<Item(<<"b">>, JInt(1)),
                                    Item(<<"c">>, JList(<<JInt(1), JInt(2)>>))>>))>>
    /\ helper.result =
          <<Item(<<"a", ".", "b">>, JInt(1)),
            Item(<<"a", ".", "c">>, Str(<<"[", "1", ", ", "2", "]">>))>>

----------------------------------------------------------------------------
(* APIConnector properties, checked under Spec *)

(* the value the three layers give a key of the running extract() *)
MergedAt(key) ==
    IF callParams[key] # Absent THEN callParams[key]
    ELSE IF config.params_endpoint[key] # Absent THEN config.params_endpoint[key]
    ELSE config.params_default[key]

(* request i carries the value the layers give the ordinary parameter and
   the limit parameter *)
CarriesMerged(i) ==
    /\ requests[i].category = MergedAt("category")
    /\ requests[i].limit = IF config.limit = 0 THEN Absent ELSE JInt(config.limit)

(* C17 as stated: every request of an extraction carries, for every key a
   layer supplies, the call-supplied value if there is one, otherwise the
   per-endpoint default, otherwise the global default. *)
C17_RequestsCarryMergedParams ==
    ctype = "api" =>
      \A i \in DOMAIN requests :
         /\ CarriesMerged(i)
         /\ MergedAt("pos") # Absent => requests[i].pos = MergedAt("pos")

(* C17, amended: every request of an extraction carries, for every key a
   layer supplies other than the position parameter of a paginated
   extraction, the call-supplied value if there is one, otherwise the
   per-endpoint default, otherwise the global default; the position
   parameter follows the same rule in an extraction without pagination and
   in the first request of cursor pagination. *)
C17_RequestsCarryMergedParamsButPosition ==
    ctype = "api" =>
      \A i \in DOMAIN requests :
         /\ CarriesMerged(i)
         /\ (/\ MergedAt("pos") # Absent
             /\ ~config.pagination \/ (config.ptype = "cursor" /\ i = 1))
            => requests[i].pos = MergedAt("pos")

C17_Witness ==
    /\ ctype = "api" /\ config.pagination /\ config.ptype = "offset"
    /\ Len(requests) = 2
    /\ config.params_default.category = JStr("d")
    /\ config.params_endpoint.category = JStr("e")
    /\ callParams = Layer(JInt(2), JStr("c"))
    /\ requests[2].category = JStr("c")
    /\ requests[2].pos = JInt(1)

(* the combinations of data type and format save_data() supports *)
SupportedCombination(data, file_format) ==
    \/ data = "dataframe" /\ file_format \in {"csv", "json", "parquet"}
    \/ data = "list" /\ file_format \in {"csv", "json"}

(* C18: for a supported combination of data type and format save_data
   returns the path of a file it has written, which is a file named after
   the connector, the timestamp and the format inside the destination when
   the destination is a directory; for every other combination it raises
   an "unsupported" error and writes no file. *)
C18_SaveDataWritesOrRefuses ==
    helper.fn = "save_data" =>
      LET r == helper.result
      IN  IF SupportedCombination(helper.data, helper.file_format)
          THEN /\ r.kind = "returned"
               /\ r.path \in r.fs.files
               /\ helper.destination.parts \in helper.fs.dirs =>
                    /\ Len(r.path) = Len(helper.destination.parts) + 1
                    /\ r.path[Len(r.path)][1] = ConnectorName
          ELSE /\ r.kind = "raised"
               /\ r.text \in {"Unsupported file format",
                              "Unsupported file format for list data",
                              "Unsupported data type"}
               /\ r.fs.files = helper.fs.files

(* C19: for every connector type, a connect() call made right after a
   connect() that returned True returns True again and leaves the
   connector as the first call left it: the same session headers and
   authentication on a session that is open, the same authentication flag
   and the same metadata. *)
C19_ConnectIsIdempotent ==
    [][(outcome = ConnectReturned(TRUE) /\ outcome'.op = "connect")
       => /\ outcome' = ConnectReturned(TRUE)
          /\ sessionState' = sessionState
          /\ session' = session
          /\ authenticated' = authenticated
          /\ metadata' = metadata]_vars

C19_Witness ==
    /\ reconnected
    /\ outcome = ConnectReturned(TRUE)
    /\ ctype = "api" /\ config.auth_type = "bearer"
    /\ sessionState.open
    /\ sessionState.headers["Authorization"] = <<"Bearer ", Credentials.token>>

(* the session carries the credentials of the configured mode *)
CarriesCredentials ==
    CASE config.auth_type = "api_key" ->
            /\ "X-API-Key" \in DOMAIN sessionState.headers
            /\ sessionState.headers["X-API-Key"] = <<Credentials.api_key>>
      [] config.auth_type = "basic" ->
            sessionState.auth = <<Credentials.username, Credentials.password>>
      [] OTHER ->
            /\ "Authorization" \in DOMAIN sessionState.headers
            /\ sessionState.headers["Authorization"] = <<"Bearer ", Credentials.token>>

(* C20: with each of the authentication modes api_key, basic, bearer and
   oauth, connect() returns True and the session carries the configured
   credentials: the key header, the basic-auth pair, or the bearer
   Authorization header. *)
C20_EveryAuthModeConnects ==
    (/\ ctype = "api" /\ outcome.op = "connect"
     /\ config.auth_type \in {"api_key", "basic", "bearer", "oauth"})
    => (outcome.ok /\ CarriesCredentials)

----------------------------------------------------------------------------
(* Frame properties of extract(), checked under Spec *)

(* C21: no step of a connector changes the connector's configuration, and
   no step of a running extract() changes the params mapping its caller
   supplied: a later extract() sees the configuration the connector was
   created with. *)
C21_ConfigurationIsReadOnly ==
    [][/\ config' = config
       /\ pc # "idle" => callParams' = callParams]_vars

(* C28: whenever the metadata of an APIConnector says "completed", its
   error is None: a completed extraction leaves no message of an earlier
   failure behind. *)
C28_CompletedHasNoError ==
    (ctype = "api" /\ metadata.status = "completed")
    => metadata.error = NoError

(* C29: every request of a paginated extraction carries the limit
   parameter, and its value is the limit the engine works with: in offset
   mode the engine has advanced its offset by that value once per page. *)
C29_EngineLimitIsSentLimit ==
    (ctype = "api" /\ config.pagination)
    => \A i \in DOMAIN requests :
          /\ requests[i].limit # Absent
          /\ Traversing("offset")
             => position = Len(requests) * requests[i].limit.n

----------------------------------------------------------------------------
(* Total count, checked under Spec *)

(* response r gives no usable total count under path: a key of the path is
   missing (the "meta" object, or the total itself), or the total is null
   or no number *)
NoUsableTotal(r, path) ==
    /\ r.http = "ok" /\ path # Path0
    /\ \/ IsDeep(path) /\ ~r.hasMeta
       \/ r.tot \in {Absent, JNull}
       \/ r.tot.t = "str" /\ r.tot.s \notin DOMAIN Numerals

(* a request of an offset or page traversal is answered while total_count
   is unknown *)
AnsweredWhileUnknown ==
    /\ ctype = "api" /\ pc = "paging" /\ config.ptype \in {"offset", "page"}
    /\ total_count = JNull
    /\ Len(requests') = Len(requests) + 1

(* C24: a response that gives no usable total count does not make the
   traversal raise: total_count stays unknown and more_pages is decided by
   the length of the page. *)
C24_TotalCountFailureIsNonFatal ==
    [][(AnsweredWhileUnknown /\ NoUsableTotal(lastResp', config.total_count_path))
       => /\ pc' = "paging"
          /\ total_count' = JNull
          /\ more_pages' = (Len(pages'[Len(pages')]) = EngineLimit(params'))]_vars

(* C25 as stated: the total count is extracted from the first response
   only; if that response gives none, total_count stays unknown for the
   rest of the traversal. *)
C25_TotalCountFromFirstPageOnly ==
    [][(ctype = "api" /\ pc = "paging" /\ requests # <<>> /\ total_count = JNull)
       => total_count' = JNull]_vars

(* C25, amended: the total count is extracted from every response received
   while total_count is unknown; it is learned from the first response
   that gives a usable one, and from then on it does not change for the
   rest of the traversal. *)
C25_TotalCountFromFirstUsableResponse ==
    [][/\ (/\ AnsweredWhileUnknown
           /\ lastResp'.http = "ok" /\ config.total_count_path # Path0
           /\ ~NoUsableTotal(lastResp', config.total_count_path)
           /\ pc' = "paging")
          => total_count' = PyInt(lastResp'.tot)
       /\ (ctype = "api" /\ pc = "paging" /\ total_count # JNull)
          => total_count' = total_count]_vars

(* The second response of an offset traversal with limit 1 gave the total
   count 1.  Had the first response given it, the traversal would have
   ended after the first page. *)
C25_Witness ==
    /\ Traversing("offset") /\ env.server = "any"
    /\ Len(requests) = 2 /\ EngineLimit(params) = 1
    /\ total_count = JInt(1) /\ lastResp.tot = JInt(1)

----------------------------------------------------------------------------
(* Pagination state, checked under Spec *)

(* C26 as stated: the first request of every extract() call carries offset
   0 in offset mode, page 1 in page mode and no position parameter in
   cursor mode, whatever the earlier calls on the connector did. *)
C26_FirstRequestStartsAfresh ==
    (ctype = "api" /\ config.pagination /\ requests # <<>>)
    => requests[1].pos = CASE config.ptype = "offset" -> JInt(0)
                           [] config.ptype = "page" -> JInt(1)
                           [] OTHER -> Absent

(* C26, amended: the first request of every extract() call carries offset
   0 in offset mode and page 1 in page mode; in cursor mode it carries the
   position parameter only when a parameter layer supplies one, with the
   value the layers give it, and never a cursor of an earlier call. *)
C26_FirstRequestStartsAfreshOrAsSupplied ==
    (ctype = "api" /\ config.pagination /\ requests # <<>>)
    => requests[1].pos = CASE config.ptype = "offset" -> JInt(0)
                           [] config.ptype = "page" -> JInt(1)
                           [] OTHER -> MergedAt("pos")

(* the second extract() of a cursor connector whose first extract()
   failed has sent its first request, without a position parameter, and
   the answer hands out a cursor *)
C26_Witness ==
    /\ ctype = "api" /\ config.pagination /\ config.ptype = "cursor"
    /\ calls = 2 /\ Len(requests) = 1
    /\ metadata.error = <<"Extraction failed: ", "HTTPError">>
    /\ metadata.record_count = 0
    /\ requests[1].pos = Absent
    /\ lastResp.cur = JStr("tok")

----------------------------------------------------------------------------
(* Endpoint names, checked under Spec *)

(* self._get_url(endpoint_name) on a configuration whose base_url is
   "https://a" and whose endpoints map is {"products": "/p"}: a name that
   is no key of the map stands for the empty endpoint *)
RequestUrl(name) ==
    LET base_url == Https \o <<"a">>
        endpoints == [products |-> <<"/", "p">>]
    IN  GetUrl(base_url,
               IF name \in DOMAIN endpoints THEN endpoints[name] ELSE <<>>)

(* C30: an extract() whose endpoint name is no key of the endpoints map
   sends no request, and no request goes to the bare base URL. *)
C30_UnknownEndpointSendsNothing ==
    ctype = "api" =>
      /\ endpoint_name \notin {"", "products"} => requests = <<>>
      /\ requests # <<>> => RequestUrl(endpoint_name) # Https \o <<"a">>

----------------------------------------------------------------------------
(* The results path, checked under HelperSpec *)

(* walking keys through obj meets a mapping that lacks the next key *)
RECURSIVE SegmentMissing(_, _)
SegmentMissing(obj, keys) ==
    /\ keys # <<>> /\ obj.t = "dict"
    /\ \/ Head(keys) \notin DOMAIN obj.f
       \/ SegmentMissing(obj.f[Head(keys)], Tail(keys))

(* C23: when a segment of results_path is missing from the response body,
   at whatever depth, the results are the empty array and nothing is
   raised. *)
C23_MissingSegmentGivesEmptyResults ==
    (helper.fn = "extract_results"
        /\ SegmentMissing(helper.data, SplitPath(helper.results_path)))
    => helper.result = JList(<<>>)

----------------------------------------------------------------------------
(* The generator protocol, checked under GeneratorSpec *)

(* C27: a request is issued only when every request before it has had its
   page yielded and the consumer has taken every page yielded so far; a
   consumer that stops after k pages has caused exactly k requests. *)
C27_YieldBeforeAdvance ==
    [][/\ Len(requests') = Len(requests) + 1
          => /\ Len(pages) = Len(requests)
             /\ Concat(pages) = all_results
       /\ pc' = "closed"
          => /\ Len(requests') = Len(pages')
             /\ Concat(pages') = all_results']_vars

(* the consumer stopped after the second of two non-empty pages while the
   generator had more pages to fetch, and two requests were made *)
C27_Witness ==
    /\ pc = "closed" /\ more_pages
    /\ Len(pages) = 2 /\ Len(requests) = 2
    /\ pages[1] # <<>> /\ pages[2] # <<>>
    /\ env.server = "byposition" /\ env.nrec > Len(all_results)

----------------------------------------------------------------------------
(* Independence of connector instances, checked under PairSpec *)

(* the account connector i authenticates for when it runs alone: the one
   of its configuration, or else the one of the user's kaggle.json *)
Alone(i) == IF pair.config[i] # "" THEN pair.config[i] ELSE pair.file0

(* C22: under every interleaving of the steps of two connectors with
   distinct configurations, each connector is authenticated for, and
   downloads with, the account it would use if it ran alone. *)
C22_ConnectorsAreIndependent ==
    \A i \in {1, 2} :
       /\ pair.user[i] \in {"", Alone(i)}
       /\ pair.results[i] \in {"", Alone(i)}

====
